---- MODULE Spec2Model ----
(***************************************************************************)
(* Model of movie/scripts/03_merge_books_with_ai_tags.py: the line-range   *)
(* validator, the segment extractor, the coverage check, the splice merge  *)
(* (merge_by_insertion_points) and the grouped merge (merge_by_ai_tags),   *)
(* driven by main; and of the stage before it,                             *)
(* movie/scripts/02b_determine_insertion_points.py, which asks the         *)
(* placement oracle for the insertion points page by page, with retries.   *)
(*                                                                         *)
(* Python values that may be None are boxed: None is the empty tuple and   *)
(* the integer n is <<n>>, so that a comparison the interpreter would      *)
(* refuse (None < 1) has to be modelled explicitly as a raised TypeError.  *)
(* A text is a sequence of tokens: a line's text is one token (no token    *)
(* for an empty line), and "\n" is the newline token, so that joining and  *)
(* concatenating are computed as the code computes them.                   *)
(***************************************************************************)
EXTENDS Integers, Sequences, FiniteSets, TLC

VARIABLES
    loaded,          \* the two JSON files as read: [pages, insertion_points]
    tagged_data,     \* tagged_data['pages'], the in-memory list handed to the merge
    insertion_data,  \* insertion_data['insertion_points'], the in-memory hint list
    pc,              \* position of the run
    merged,          \* what the last call of merge_by_insertion_points produced
    first,           \* what the previous call produced
    report,          \* the lines main prints about the run
    vlr,             \* the last call of validate_line_range: arguments and result
    insertion_loaded,\* load_insertion_points returned the file's content, not None
    coverage,        \* what the last call of check_line_coverage produced
    ext,             \* the last call of extract_text_from_line_range
    ruchama_i,       \* determine_insertion_points_for_pages: index of the page
    attempt,         \* ... the attempt of the retry loop
    oracle_points,   \* ... its insertion_points, the list built so far
    log,             \* what the oracle answered to the calls for this page
    page_base,       \* len(oracle_points) when this page was begun
    visited          \* the page numbers the loop has begun, in order

\* the state of the oracle stage
oracle_vars == <<ruchama_i, attempt, oracle_points, log, page_base, visited>>

vars == <<loaded, tagged_data, insertion_data, pc, merged, first, report, vlr,
          insertion_loaded, coverage, ext, oracle_vars>>

----------------------------------------------------------------------------
(* Bounds *)

MaxHints == 2        \* longest list of insertion points
MaxBound == 4        \* largest line bound handed to validate_line_range
MaxTags == 3         \* longest tag list handed to check_line_coverage

----------------------------------------------------------------------------
(* Python values *)

None == << >>
I(n) == <<n>>
IsInt(x) == Len(x) = 1
V(x) == x[1]

\* a JSON string where a number is expected
S(s) == <<"str", s>>

\* truth value of a bound: None, 0 and the empty string are false
Truthy(x) == x # None /\ x # I(0) /\ x # S("")

NL == "\n"

\* str.join over a list of texts, with "\n" as the separator
RECURSIVE JoinLines(_)
JoinLines(texts) ==
    IF Len(texts) = 0 THEN << >>
    ELSE IF Len(texts) = 1 THEN texts[1]
    ELSE texts[1] \o <<NL>> \o JoinLines(Tail(texts))

\* the text of one line as tokens
LineText(s) == IF s = "" THEN << >> ELSE <<s>>

\* not text.strip(): the text holds nothing but whitespace
WhiteSpace == {" ", "\t", NL}
Blank(text) == \A k \in 1..Len(text) : text[k] \in WhiteSpace

----------------------------------------------------------------------------
(* Pages, as the ingestion stage builds them *)

RECURSIVE LineEntries(_, _)
LineEntries(texts, from) ==
    IF Len(texts) = 0 THEN << >>
    ELSE <<[line_number |-> from, text |-> LineText(texts[1]),
            is_empty |-> Blank(LineText(texts[1]))]>>
         \o LineEntries(Tail(texts), from + 1)

AllTexts(lines) == [i \in 1..Len(lines) |-> lines[i].text]

Page(book, number, chapter, texts) ==
    LET lines == LineEntries(texts, 1)
    IN  [book_id |-> book, page_number |-> number, chapter |-> chapter,
         full_text |-> JoinLines(AllTexts(lines)), lines |-> lines]

Y1 == Page("sadot_rishonim", 1, "cy1", <<"y1a", "y1b">>)
Y2 == Page("sadot_rishonim", 2, "cy2", <<"y2a">>)
R1 == Page("beit_markovski", 1, "cr1", <<"r1a", "", "r1c">>)
R2 == Page("beit_markovski", 2, "cr2", <<"r2a">>)
\* a second page 1 of the base source
Y1dup == Page("sadot_rishonim", 1, "cy1", <<"y1x">>)

PagePool == {Y1, Y2, R1, R2, Y1dup}

\* the lists of distinct pages of a set, in every order
Orderings(pages) ==
    {s \in UNION {[1..n -> pages] : n \in 0..Cardinality(pages)} :
        \A i, j \in 1..Len(s) : i # j => s[i] # s[j]}

\* the page lists a run is given: the two base pages and a secondary page in
\* every order and every selection, lists with both secondary pages, and
\* lists in which a base page number occurs twice
TaggedInputs ==
    Orderings({Y1, Y2, R1})
        \cup {<<R2, Y2, R1, Y1>>, <<Y1, R1, Y2, R2>>, <<R2, R1>>}
        \cup {<<Y1dup, Y2, R1, Y1>>, <<Y1, Y1dup>>}

----------------------------------------------------------------------------
(* validate_line_range *)

\* a function's outcome: a returned value, or an exception raised
Returned(v) == [raised |-> FALSE, value |-> v]
Raised == [raised |-> TRUE, value |-> << >>]

RECURSIVE MaxOf(_)
MaxOf(nums) ==
    IF Len(nums) = 0 THEN 0
    ELSE LET m == MaxOf(Tail(nums)) IN IF nums[1] > m THEN nums[1] ELSE m

\* max([line.get('line_number', 0) for line in lines], default=0)
MaxLine(page) == MaxOf([i \in 1..Len(page.lines) |-> page.lines[i].line_number])

\* str() of an integer or of None, as an f-string formats it
Str(x) == IF IsInt(x) THEN ToString(V(x)) ELSE "None"

\* the four error messages
NotIntegerMsg == "Line numbers must be integers"
NonPositiveMsg == "Line numbers must be >= 1"
InvertedMsg(line_start, line_end) ==
    "line_start (" \o Str(line_start) \o ") > line_end ("
        \o Str(line_end) \o ")"
OutOfBoundsMsg(line_end, max_line) ==
    "line_end (" \o Str(line_end) \o ") > max line ("
        \o ToString(max_line) \o ")"

\* the function without its isinstance test: the first comparison is reached
\* with the bounds as given, and None < 1 raises TypeError
ValidateUnguarded(page, line_start, line_end) ==
    IF ~IsInt(line_start) \/ ~IsInt(line_end) THEN Raised
    ELSE IF V(line_start) < 1 \/ V(line_end) < 1
         THEN Returned([valid |-> FALSE, reason |-> NonPositiveMsg])
    ELSE IF V(line_start) > V(line_end)
         THEN Returned([valid |-> FALSE, reason |-> InvertedMsg(line_start, line_end)])
    ELSE IF V(line_end) > MaxLine(page)
         THEN Returned([valid |-> FALSE, reason |-> OutOfBoundsMsg(line_end, MaxLine(page))])
    ELSE Returned([valid |-> TRUE, reason |-> "None"])

\* the function with the bounds test before the sign test
ValidateBoundsFirst(page, line_start, line_end) ==
    IF ~IsInt(line_start) \/ ~IsInt(line_end)
    THEN Returned([valid |-> FALSE, reason |-> NotIntegerMsg])
    ELSE IF V(line_end) > MaxLine(page)
         THEN Returned([valid |-> FALSE, reason |-> OutOfBoundsMsg(line_end, MaxLine(page))])
    ELSE IF V(line_start) < 1 \/ V(line_end) < 1
         THEN Returned([valid |-> FALSE, reason |-> NonPositiveMsg])
    ELSE IF V(line_start) > V(line_end)
         THEN Returned([valid |-> FALSE, reason |-> InvertedMsg(line_start, line_end)])
    ELSE Returned([valid |-> TRUE, reason |-> "None"])

validate_line_range(page, line_start, line_end) ==
    IF ~IsInt(line_start) \/ ~IsInt(line_end)
    THEN Returned([valid |-> FALSE, reason |-> NotIntegerMsg])
    ELSE IF V(line_start) < 1 \/ V(line_end) < 1
         THEN Returned([valid |-> FALSE, reason |-> NonPositiveMsg])
    ELSE IF V(line_start) > V(line_end)
         THEN Returned([valid |-> FALSE, reason |-> InvertedMsg(line_start, line_end)])
    ELSE IF V(line_end) > MaxLine(page)
         THEN Returned([valid |-> FALSE, reason |-> OutOfBoundsMsg(line_end, MaxLine(page))])
    ELSE Returned([valid |-> TRUE, reason |-> "None"])

----------------------------------------------------------------------------
(* extract_text_from_line_range *)

\* line_start <= line_num <= line_end, a chained comparison: the second
\* comparison is evaluated only when the first is true; a comparison with
\* None raises TypeError
InRangeRaises(line_start, line_num, line_end) ==
    \/ ~IsInt(line_start)
    \/ V(line_start) <= line_num /\ ~IsInt(line_end)

\* the comparison with the end bound left out of the range
InRangeHalfOpen(line_start, line_num, line_end) ==
    V(line_start) <= line_num /\ line_num < V(line_end)

InRange(line_start, line_num, line_end) ==
    V(line_start) <= line_num /\ line_num <= V(line_end)

ExtractRaises(page, line_start, line_end) ==
    \E i \in 1..Len(page.lines) :
        InRangeRaises(line_start, page.lines[i].line_number, line_end)

RECURSIVE SelectedTexts(_, _, _)
SelectedTexts(lines, line_start, line_end) ==
    IF Len(lines) = 0 THEN << >>
    ELSE (IF InRange(line_start, lines[1].line_number, line_end)
          THEN <<lines[1].text>> ELSE << >>)
         \o SelectedTexts(Tail(lines), line_start, line_end)

extract_text_from_line_range(page, line_start, line_end) ==
    IF ExtractRaises(page, line_start, line_end) THEN Raised
    ELSE Returned(JoinLines(SelectedTexts(page.lines, line_start, line_end)))

----------------------------------------------------------------------------
(* check_line_coverage *)

\* a line tag, as the tagging oracle hands it over; a month or a location
\* that is null or missing is the empty string (the code reads both through
\* "or 'unknown'")
Tag(line_start, line_end, year, month, location, confidence) ==
    [line_start |-> line_start, line_end |-> line_end, year |-> year,
     month |-> month, location |-> location, confidence |-> confidence]

\* the page with a list of line tags
WithTags(page, line_tags) ==
    [book_id |-> page.book_id, page_number |-> page.page_number,
     chapter |-> page.chapter, full_text |-> page.full_text,
     lines |-> page.lines, line_tags |-> line_tags]

\* page.get('line_tags', [])
LineTags(page) ==
    IF "line_tags" \in DOMAIN page THEN page.line_tags ELSE << >>

\* is_valid of validate_line_range(page, line_start, line_end)
TagValid(page, tag) ==
    validate_line_range(page, tag.line_start, tag.line_end).value.valid

\* set(range(prev_start, prev_end + 1)) raises TypeError when a bound that
\* passed "if prev_start and prev_end" is not an integer
PrevRaises(prev) ==
    /\ Truthy(prev.line_start) /\ Truthy(prev.line_end)
    /\ ~(IsInt(prev.line_start) /\ IsInt(prev.line_end))

CoverageRaises(page) ==
    LET line_tags == LineTags(page) IN
    \E i \in 1..Len(line_tags) :
        /\ TagValid(page, line_tags[i])
        /\ \E j \in 1..(i - 1) : PrevRaises(line_tags[j])

\* the inner loop of a valid tag over the tags before it
RECURSIVE OverlapsWith(_, _)
OverlapsWith(tag, prevs) ==
    IF Len(prevs) = 0 THEN << >>
    ELSE LET prev == prevs[1]
             tag_range == V(tag.line_start)..V(tag.line_end)
         IN  (IF /\ Truthy(prev.line_start) /\ Truthy(prev.line_end)
                 /\ tag_range \cap (V(prev.line_start)..V(prev.line_end)) # {}
              THEN <<[tag1 |-> [start |-> prev.line_start,
                                end |-> prev.line_end],
                      tag2 |-> [start |-> tag.line_start,
                                end |-> tag.line_end]]>>
              ELSE << >>)
             \o OverlapsWith(tag, Tail(prevs))

\* the outer loop from tag i on: the entries appended to overlapping_ranges
RECURSIVE OverlappingRanges(_, _)
OverlappingRanges(page, i) ==
    LET line_tags == LineTags(page) IN
    IF i > Len(line_tags) THEN << >>
    ELSE (IF TagValid(page, line_tags[i])
          THEN OverlapsWith(line_tags[i], SubSeq(line_tags, 1, i - 1))
          ELSE << >>)
         \o OverlappingRanges(page, i + 1)

\* the outer loop from tag i on: the entries appended to invalid_ranges
RECURSIVE InvalidRanges(_, _)
InvalidRanges(page, i) ==
    LET line_tags == LineTags(page) IN
    IF i > Len(line_tags) THEN << >>
    ELSE (IF TagValid(page, line_tags[i]) THEN << >>
          ELSE <<[tag_index |-> i - 1,
                  line_start |-> line_tags[i].line_start,
                  line_end |-> line_tags[i].line_end,
                  error |-> validate_line_range(
                                page, line_tags[i].line_start,
                                line_tags[i].line_end).value.reason]>>)
         \o InvalidRanges(page, i + 1)

\* covered_lines: the ranges of the valid tags
CoveredLines(page) ==
    LET line_tags == LineTags(page) IN
    UNION {V(line_tags[i].line_start)..V(line_tags[i].line_end) :
              i \in {k \in 1..Len(line_tags) : TagValid(page, line_tags[k])}}

\* {line_number of the lines whose text.strip() is not empty}
NonEmptyLines(page) ==
    {page.lines[i].line_number :
        i \in {k \in 1..Len(page.lines) : ~Blank(page.lines[k].text)}}

\* the early return of a page without tags reports every line of 1..len
NoTagsCoverage(page) ==
    [total_lines |-> Len(page.lines), covered_lines |-> {},
     missing_lines |-> 1..Len(page.lines), overlapping_ranges |-> << >>,
     invalid_ranges |-> << >>]

check_line_coverage(page) ==
    IF Len(LineTags(page)) = 0 THEN Returned(NoTagsCoverage(page))
    ELSE IF CoverageRaises(page) THEN Raised
    ELSE Returned(
             [total_lines |-> Len(page.lines),
              covered_lines |-> CoveredLines(page),
              missing_lines |-> NonEmptyLines(page) \ CoveredLines(page),
              overlapping_ranges |-> OverlappingRanges(page, 1),
              invalid_ranges |-> InvalidRanges(page, 1)])

----------------------------------------------------------------------------
(* Insertion points, as the placement oracle hands them over *)

Hint(sp, ls, le, ap, al, why, conf) ==
    [source_page |-> sp, source_line_start |-> ls, source_line_end |-> le,
     insert_after_page |-> ap, insert_after_line |-> al,
     insert_reason |-> why, confidence |-> conf]

HintPool == {
    Hint(I(1), I(1), I(1), I(1), I(0), "a", "high"),    \* a valid range
    Hint(I(1), I(3), I(3), I(1), I(0), "b", "low"),     \* another, same target
    Hint(I(1), I(1), I(1), I(2), I(0), "c", "medium"),  \* the first triple again
    Hint(I(1), I(1), I(3), I(1), I(1), "", "high"),     \* after a line of the page
    Hint(I(2), I(1), I(1), I(2), I(0), "o", "low"),     \* of the other page
    Hint(I(1), I(3), I(3), I(2), I(5), "d", "low"),     \* after a line past the end
    Hint(I(1), I(1), I(3), I(1), I(5), "p", "medium"),  \* the same, of page 1
    Hint(I(9), I(1), I(1), I(1), I(0), "e", "high"),    \* no such source page
    Hint(None, I(1), I(1), I(2), I(0), "f", "high"),    \* null source page
    Hint(I(1), I(2), I(5), I(1), I(0), "g", "high"),    \* end past the last line
    Hint(I(1), I(3), I(1), I(2), I(0), "h", "high"),    \* inverted
    Hint(I(1), I(0), I(1), I(1), I(0), "i", "high"),    \* bound below 1
    Hint(I(1), I(1), I(3), I(7), I(0), "j", "medium"),  \* no such base page
    Hint(I(1), None, I(1), I(1), I(0), "k", "high"),    \* null source bound
    Hint(I(1), I(3), None, I(1), I(0), "l", "high"),    \* null source bound
    Hint(I(1), I(1), I(1), None, I(0), "m", "high"),    \* null target page
    Hint(I(1), I(3), I(3), I(1), None, "n", "high") }   \* null target line

HintInputs == UNION {[1..n -> HintPool] : n \in 0..MaxHints}

----------------------------------------------------------------------------
(* merge_by_insertion_points *)

Yehuda == "sadot_rishonim"
Ruchama == "beit_markovski"

\* list.sort(key=...) is stable: an element goes behind the equal ones
RECURSIVE InsertByPage(_, _)
InsertByPage(sorted, p) ==
    IF Len(sorted) = 0 THEN <<p>>
    ELSE IF p.page_number < sorted[1].page_number THEN <<p>> \o sorted
    ELSE <<sorted[1]>> \o InsertByPage(Tail(sorted), p)

RECURSIVE SortByPage(_)
SortByPage(pages) ==
    IF Len(pages) = 0 THEN << >>
    ELSE InsertByPage(SortByPage(SubSeq(pages, 1, Len(pages) - 1)),
                      pages[Len(pages)])

BookPages(pages, book) ==
    SortByPage(SelectSeq(pages, LAMBDA p : p.book_id = book))

\* the search with the first page as its default
FindPageOrFirst(ruchama_pages, source_page) ==
    LET hits == {i \in 1..Len(ruchama_pages) :
                    IsInt(source_page)
                    /\ ruchama_pages[i].page_number = V(source_page)}
    IN  IF hits = {} THEN (IF Len(ruchama_pages) = 0 THEN 0 ELSE 1)
        ELSE CHOOSE i \in hits : \A j \in hits : i <= j

\* next((p for p in ruchama_pages if p.get('page_number') == source_page), None):
\* the index of the first match, 0 for None
FindPage(ruchama_pages, source_page) ==
    LET hits == {i \in 1..Len(ruchama_pages) :
                    IsInt(source_page)
                    /\ ruchama_pages[i].page_number = V(source_page)}
    IN  IF hits = {} THEN 0 ELSE CHOOSE i \in hits : \A j \in hits : i <= j

\* the key with the end bound left out
KeyWithoutEnd(ip) == Str(ip.source_page) \o "_" \o Str(ip.source_line_start)

\* f"{source_page}_{source_line_start}_{source_line_end}"
Key(ip) ==
    Str(ip.source_page) \o "_" \o Str(ip.source_line_start)
        \o "_" \o Str(ip.source_line_end)

\* the first loop: the hints whose page is found, and whether an extraction raised
Resolvable(ruchama_pages, ip) == FindPage(ruchama_pages, ip.source_page) # 0

LookupRaises(ruchama_pages, insertion_points) ==
    \E i \in 1..Len(insertion_points) :
        LET ip == insertion_points[i] IN
        /\ Resolvable(ruchama_pages, ip)
        /\ ExtractRaises(ruchama_pages[FindPage(ruchama_pages, ip.source_page)],
                         ip.source_line_start, ip.source_line_end)

\* ruchama_paragraphs_lookup: a later hint with the same key overwrites the entry
LookupKeys(ruchama_pages, insertion_points) ==
    {Key(insertion_points[i]) : i \in
        {j \in 1..Len(insertion_points) :
            Resolvable(ruchama_pages, insertion_points[j])}}

LookupEntry(ruchama_pages, insertion_points, key) ==
    LET last == CHOOSE i \in 1..Len(insertion_points) :
                    /\ Key(insertion_points[i]) = key
                    /\ \A j \in 1..Len(insertion_points) :
                          Key(insertion_points[j]) = key => j <= i
        ip   == insertion_points[last]
        page == ruchama_pages[FindPage(ruchama_pages, ip.source_page)]
    IN  [page |-> page,
         text |-> extract_text_from_line_range(
                      page, ip.source_line_start, ip.source_line_end).value,
         line_start |-> ip.source_line_start,
         line_end |-> ip.source_line_end,
         insertion_point |-> ip]

\* the Yehuda segments: one per page of the sorted list
YehudaSegment(p) ==
    [type |-> "yehuda", page |-> p.page_number, chapter |-> p.chapter,
     text |-> p.full_text, insert_position |-> <<I(p.page_number), I(0)>>]

YehudaSegments(yehuda_pages) ==
    [i \in 1..Len(yehuda_pages) |-> YehudaSegment(yehuda_pages[i])]

\* the segment built from the lookup entry's own insertion point
PlacedFromLookup(ip, para_data) ==
    LET lp == para_data.insertion_point IN
    [type |-> "ruchama", page |-> para_data.page.page_number,
     chapter |-> para_data.page.chapter,
     line_start |-> lp.source_line_start, line_end |-> lp.source_line_end,
     text |-> para_data.text,
     insert_position |-> <<lp.insert_after_page, lp.insert_after_line>>,
     insert_reason |-> lp.insert_reason, confidence |-> lp.confidence]

\* the Ruchama segment of hint ip, whose lookup entry is para_data
PlacedSegment(ip, para_data) ==
    [type |-> "ruchama", page |-> para_data.page.page_number,
     chapter |-> para_data.page.chapter,
     line_start |-> ip.source_line_start, line_end |-> ip.source_line_end,
     text |-> para_data.text,
     insert_position |-> <<ip.insert_after_page, ip.insert_after_line>>,
     insert_reason |-> ip.insert_reason, confidence |-> ip.confidence]

\* the second loop, from hint i on, with the keys inserted so far
RECURSIVE PlaceFrom(_, _, _, _)
PlaceFrom(ruchama_pages, insertion_points, i, inserted_segments) ==
    IF i > Len(insertion_points) THEN << >>
    ELSE LET ip  == insertion_points[i]
             key == Key(ip)
         IN  IF /\ key \in LookupKeys(ruchama_pages, insertion_points)
                /\ key \notin inserted_segments
             THEN <<PlacedSegment(ip, LookupEntry(ruchama_pages,
                                                  insertion_points, key))>>
                  \o PlaceFrom(ruchama_pages, insertion_points, i + 1,
                               inserted_segments \cup {key})
             ELSE PlaceFrom(ruchama_pages, insertion_points, i + 1,
                            inserted_segments)

RuchamaSegments(ruchama_pages, insertion_points) ==
    PlaceFrom(ruchama_pages, insertion_points, 1, {})

\* the tiers the other way round
TierPlacedFirst(s) == IF s.type = "yehuda" THEN 1 ELSE 0

\* the sort key (page, line, tier) of a segment
Tier(s) == IF s.type = "yehuda" THEN 0 ELSE 1

\* the key with the line in front of the page
SortKeyLineFirst(s) == <<s.insert_position[2], s.insert_position[1], Tier(s)>>

SortKey(s) == <<s.insert_position[1], s.insert_position[2], Tier(s)>>

\* tuple comparison: the first components that differ are compared with <,
\* and None against an integer raises TypeError
CompareRaises(a, b) ==
    IF a[1] # b[1] THEN ~(IsInt(a[1]) /\ IsInt(b[1]))
    ELSE IF a[2] # b[2] THEN ~(IsInt(a[2]) /\ IsInt(b[2]))
    ELSE FALSE

KeyLess(a, b) ==
    IF a[1] # b[1] THEN V(a[1]) < V(b[1])
    ELSE IF a[2] # b[2] THEN V(a[2]) < V(b[2])
    ELSE a[3] < b[3]

\* a comparison sort compares every two elements that end up next to each
\* other, so the sort raises when two keys of the list cannot be compared
SortRaises(segments) ==
    \E i, j \in 1..Len(segments) :
        i < j /\ CompareRaises(SortKey(segments[i]), SortKey(segments[j]))

\* an insertion that puts an element in front of the equal ones
RECURSIVE InsertBeforeEqual(_, _)
InsertBeforeEqual(sorted, s) ==
    IF Len(sorted) = 0 THEN <<s>>
    ELSE IF ~KeyLess(SortKey(sorted[1]), SortKey(s)) THEN <<s>> \o sorted
    ELSE <<sorted[1]>> \o InsertBeforeEqual(Tail(sorted), s)

RECURSIVE InsertByKey(_, _)
InsertByKey(sorted, s) ==
    IF Len(sorted) = 0 THEN <<s>>
    ELSE IF KeyLess(SortKey(s), SortKey(sorted[1])) THEN <<s>> \o sorted
    ELSE <<sorted[1]>> \o InsertByKey(Tail(sorted), s)

RECURSIVE StableSort(_)
StableSort(segments) ==
    IF Len(segments) = 0 THEN << >>
    ELSE InsertByKey(StableSort(SubSeq(segments, 1, Len(segments) - 1)),
                     segments[Len(segments)])

Reverse(seq) == [i \in 1..Len(seq) |-> seq[Len(seq) + 1 - i]]

\* the sort with reverse=True
SortDescending(segments) == Reverse(StableSort(segments))

\* all_segments.sort(key=...)
SortSegments(segments) == StableSort(segments)

\* the header of a segment; the Hebrew literals are transliterated
Header(s) ==
    IF s.type = "yehuda"
    THEN "[mi-sadot rishonim - " \o s.chapter \o ", amud "
             \o ToString(s.page) \o "]"
    ELSE "[mi-beit markovski - " \o s.chapter \o ", amud "
             \o ToString(s.page) \o ", shurot " \o Str(s.line_start)
             \o "-" \o Str(s.line_end)
             \o (IF s.insert_reason # "" THEN " | " \o s.insert_reason ELSE "")
             \o "]"

\* the three parts appended per segment: "\n" header "\n", the text, "\n"
Block(s) == <<NL, Header(s), NL>> \o s.text \o <<NL>>

StructureRecord(s) ==
    IF s.type = "yehuda"
    THEN [book |-> Yehuda, page |-> s.page, preserved_order |-> TRUE]
    ELSE [book |-> Ruchama, page |-> s.page,
          line_start |-> s.line_start, line_end |-> s.line_end,
          inserted_after_page |-> s.insert_position[1],
          inserted_after_line |-> s.insert_position[2],
          insert_reason |-> s.insert_reason, confidence |-> s.confidence]

RECURSIVE RenderText(_)
RenderText(segments) ==
    IF Len(segments) = 0 THEN << >>
    ELSE Block(segments[1]) \o RenderText(Tail(segments))

RenderStructure(segments) ==
    [i \in 1..Len(segments) |-> StructureRecord(segments[i])]

\* what a call does not return when it raises
NoDocument == [raised |-> TRUE, merged_text |-> << >>, merged_structure |-> << >>]

merge_by_insertion_points(pages, insertion_points) ==
    LET yehuda_pages  == BookPages(pages, Yehuda)
        ruchama_pages == BookPages(pages, Ruchama)
    IN  IF LookupRaises(ruchama_pages, insertion_points) THEN NoDocument
        ELSE LET all_segments ==
                     YehudaSegments(yehuda_pages)
                     \o RuchamaSegments(ruchama_pages, insertion_points)
             IN  IF SortRaises(all_segments) THEN NoDocument
                 ELSE LET sorted == SortSegments(all_segments)
                      IN  [raised |-> FALSE,
                           merged_text |-> RenderText(sorted),
                           merged_structure |-> RenderStructure(sorted)]

\* the list comprehensions copy: the two sorts work on the copies
PagesSortedInPlace(pages) == SortByPage(pages)

\* tagged_data['pages'] after a call of merge_by_insertion_points
PagesAfterMerge(pages) == pages

----------------------------------------------------------------------------
(* merge_by_ai_tags: the entries *)

UnknownYear == 9999
Unknown == "unknown"

\* the entry of a tag that passed the tests
Entry(page, tag) ==
    [book_name |-> page.book_id, book_id |-> page.book_id,
     page_number |-> page.page_number, chapter |-> page.chapter,
     line_start |-> tag.line_start, line_end |-> tag.line_end,
     text |-> extract_text_from_line_range(
                  page, tag.line_start, tag.line_end).value,
     year |-> tag.year,
     month |-> IF tag.month = "" THEN Unknown ELSE tag.month,
     location |-> IF tag.location = "" THEN Unknown ELSE tag.location,
     confidence |-> tag.confidence]

\* a tag is passed over when a bound is false, the range is invalid or the
\* extracted text is blank
Skipped(page, tag) ==
    \/ ~Truthy(tag.line_start) \/ ~Truthy(tag.line_end)
    \/ ~TagValid(page, tag)
    \/ Blank(extract_text_from_line_range(
                 page, tag.line_start, tag.line_end).value)

\* the loop over the tags of a page, from tag i on
RECURSIVE PageEntries(_, _)
PageEntries(page, i) ==
    IF i > Len(LineTags(page)) THEN << >>
    ELSE (IF Skipped(page, LineTags(page)[i]) THEN << >>
          ELSE <<Entry(page, LineTags(page)[i])>>)
         \o PageEntries(page, i + 1)

\* line_range_entries: the loop over the pages, in the order of the list
RECURSIVE LineRangeEntries(_)
LineRangeEntries(pages) ==
    IF Len(pages) = 0 THEN << >>
    ELSE PageEntries(pages[1], 1) \o LineRangeEntries(Tail(pages))

----------------------------------------------------------------------------
(* merge_by_ai_tags: the groups and their order *)

\* the key of grouped_entries: a false year (None, 0) becomes 9999
YearKey(entry) == IF Truthy(entry.year) THEN entry.year ELSE I(UnknownYear)

\* sorted() of a set of integers
RECURSIVE Ascend(_)
Ascend(nums) ==
    IF nums = {} THEN << >>
    ELSE LET least == CHOOSE x \in nums : \A y \in nums : x <= y
         IN  <<least>> \o Ascend(nums \ {least})

\* the integer years with reverse=True
DescendingYears(entries) ==
    Reverse(Ascend({V(YearKey(entries[i])) :
                       i \in {k \in 1..Len(entries) :
                                 /\ IsInt(YearKey(entries[k]))
                                 /\ V(YearKey(entries[k])) # UnknownYear}}))

\* sorted([y for y in grouped_entries.keys() if isinstance(y, int) and y != 9999])
SortedYears(entries) ==
    Ascend({V(YearKey(entries[i])) :
               i \in {k \in 1..Len(entries) :
                         /\ IsInt(YearKey(entries[k]))
                         /\ V(YearKey(entries[k])) # UnknownYear}})

\* the keys of a dict, in the order in which they were first inserted
RECURSIVE FirstSeen(_)
FirstSeen(keys) ==
    IF Len(keys) = 0 THEN << >>
    ELSE LET before == FirstSeen(SubSeq(keys, 1, Len(keys) - 1))
             last   == keys[Len(keys)]
         IN  IF \E k \in 1..Len(before) : before[k] = last THEN before
             ELSE Append(before, last)

\* months_order, transliterated
months_order ==
    <<"yanuar", "februar", "merts", "mars", "april", "mai", "yuni", "yuli",
      "ogust", "september", "oktober", "november", "detsember", "unknown">>

\* months_order.index(m) if m in months_order else 999
MonthRank(m) ==
    IF \E k \in 1..Len(months_order) : months_order[k] = m
    THEN (CHOOSE k \in 1..Len(months_order) : months_order[k] = m) - 1
    ELSE 999

\* the location names of the model in the order of Python's string
\* comparison (by code point)
LocationNames == <<"jaffa", "metula", "unknown", "zikhron">>

LocationRank(l) == CHOOSE k \in 1..Len(LocationNames) : LocationNames[k] = l

\* sorted(keys, key=rank): stable, a key goes behind the keys of equal rank
RECURSIVE InsertByRank(_, _, _)
InsertByRank(sorted, x, rank) ==
    IF Len(sorted) = 0 THEN <<x>>
    ELSE IF rank[x] < rank[sorted[1]] THEN <<x>> \o sorted
    ELSE <<sorted[1]>> \o InsertByRank(Tail(sorted), x, rank)

RECURSIVE SortByRank(_, _)
SortByRank(keys, rank) ==
    IF Len(keys) = 0 THEN << >>
    ELSE InsertByRank(SortByRank(SubSeq(keys, 1, Len(keys) - 1), rank),
                      keys[Len(keys)], rank)

\* entries.sort(key=lambda e: (page_number, line_start)), stable
PageLineLess(a, b) ==
    \/ a.page_number < b.page_number
    \/ a.page_number = b.page_number /\ V(a.line_start) < V(b.line_start)

RECURSIVE InsertByPageLine(_, _)
InsertByPageLine(sorted, e) ==
    IF Len(sorted) = 0 THEN <<e>>
    ELSE IF PageLineLess(e, sorted[1]) THEN <<e>> \o sorted
    ELSE <<sorted[1]>> \o InsertByPageLine(Tail(sorted), e)

RECURSIVE SortByPageLine(_)
SortByPageLine(entries) ==
    IF Len(entries) = 0 THEN << >>
    ELSE InsertByPageLine(SortByPageLine(SubSeq(entries, 1, Len(entries) - 1)),
                          entries[Len(entries)])

\* grouped_entries[year], [year][month], [year][month][location]
OfYear(entries, year) == SelectSeq(entries, LAMBDA e : YearKey(e) = year)
OfMonth(entries, month) == SelectSeq(entries, LAMBDA e : e.month = month)
OfLocation(entries, location) ==
    SelectSeq(entries, LAMBDA e : e.location = location)

MonthKeys(entries) == FirstSeen([i \in 1..Len(entries) |-> entries[i].month])
LocationKeys(entries) ==
    FirstSeen([i \in 1..Len(entries) |-> entries[i].location])

\* sorted(year_entries.keys(), key=...) and sorted(month_entries.keys())
SortedMonths(entries) ==
    SortByRank(MonthKeys(entries),
               [m \in {entries[i].month : i \in 1..Len(entries)} |->
                   MonthRank(m)])
SortedLocations(entries) ==
    SortByRank(LocationKeys(entries),
               [l \in {entries[i].location : i \in 1..Len(entries)} |->
                   LocationRank(l)])

RECURSIVE Flatten(_)
Flatten(seqs) ==
    IF Len(seqs) = 0 THEN << >> ELSE seqs[1] \o Flatten(Tail(seqs))

\* the entries of a year in the order in which they are rendered: by month,
\* by location, by page and line; the months and locations sorted (an
\* integer year) or in insertion order (the unknown year)
InRenderOrder(year_entries, sorted) ==
    LET months == IF sorted THEN SortedMonths(year_entries)
                  ELSE MonthKeys(year_entries)
    IN  Flatten([i \in 1..Len(months) |->
            LET month_entries == OfMonth(year_entries, months[i])
                locations     == IF sorted THEN SortedLocations(month_entries)
                                 ELSE LocationKeys(month_entries)
            IN  Flatten([j \in 1..Len(locations) |->
                    SortByPageLine(OfLocation(month_entries, locations[j]))])])

----------------------------------------------------------------------------
(* merge_by_ai_tags: the text and the structure *)

\* '=' * 60
Rule == "============================================================"

\* the banners; the Hebrew literals are transliterated
YearBanner(year) ==
    <<NL, NL, Rule, NL, "shana: " \o ToString(year), NL, Rule, NL>>
UnknownYearBanner == <<NL, NL, Rule, NL, "shana lo yedua", NL, Rule, NL>>
MonthBanner(month) == <<NL, "--- hodesh: " \o month \o " ---", NL>>
LocationBanner(location) == <<NL, "### mikum: " \o location \o " ###", NL>>

\* str() of a year
YearStr(year) == IF IsInt(year) THEN ToString(V(year)) ELSE year[2]

\* ', '.join(tags)
RECURSIVE JoinComma(_)
JoinComma(tags) ==
    IF Len(tags) = 0 THEN ""
    ELSE IF Len(tags) = 1 THEN tags[1]
    ELSE tags[1] \o ", " \o JoinComma(Tail(tags))

\* the tags a header of an integer year shows
HeaderTags(entry) ==
    (IF Truthy(entry.year) THEN <<"shana: " \o YearStr(entry.year)>>
     ELSE << >>)
    \o (IF entry.month # Unknown THEN <<"hodesh: " \o entry.month>>
        ELSE << >>)
    \o (IF entry.location # Unknown THEN <<"mikum: " \o entry.location>>
        ELSE << >>)

\* the header of an entry up to its line numbers
HeaderStem(entry) ==
    "[mi-" \o entry.book_name
        \o (IF entry.chapter # "" THEN " - " \o entry.chapter ELSE "")
        \o ", amud " \o ToString(entry.page_number)
        \o (IF entry.line_start = entry.line_end
            THEN ", shura " \o Str(entry.line_start)
            ELSE ", shurot " \o Str(entry.line_start) \o "-"
                     \o Str(entry.line_end))

TaggedHeader(entry) ==
    HeaderStem(entry)
        \o (IF Len(HeaderTags(entry)) > 0
            THEN " | " \o JoinComma(HeaderTags(entry)) ELSE "")
        \o "]"

\* the header in the unknown year: no tags
PlainHeader(entry) == HeaderStem(entry) \o "]"

TaggedBlock(entry) == <<NL, TaggedHeader(entry), NL>> \o entry.text \o <<NL>>
PlainBlock(entry) == <<NL, PlainHeader(entry), NL>> \o entry.text \o <<NL>>

\* len(text): the characters of the tokens
RECURSIVE TextLength(_)
TextLength(text) ==
    IF Len(text) = 0 THEN 0 ELSE Len(text[1]) + TextLength(Tail(text))

\* the record appended to merged_structure; a month or location that is
\* None is the empty string
AiStructureRecord(entry) ==
    [year |-> V(YearKey(entry)),
     month |-> IF entry.month # Unknown THEN entry.month ELSE "",
     location |-> IF entry.location # Unknown THEN entry.location ELSE "",
     book |-> entry.book_name, chapter |-> entry.chapter,
     page |-> entry.page_number,
     line_start |-> entry.line_start, line_end |-> entry.line_end,
     text_length |-> TextLength(entry.text),
     ai_confidence |-> entry.confidence]

\* the text of one location group, one month group, one integer year
LocationText(location_entries, location) ==
    (IF location # Unknown THEN LocationBanner(location) ELSE << >>)
    \o Flatten([k \in 1..Len(location_entries) |->
                   TaggedBlock(SortByPageLine(location_entries)[k])])

MonthText(month_entries, month) ==
    (IF month # Unknown THEN MonthBanner(month) ELSE << >>)
    \o Flatten([j \in 1..Len(SortedLocations(month_entries)) |->
                   LocationText(
                       OfLocation(month_entries,
                                  SortedLocations(month_entries)[j]),
                       SortedLocations(month_entries)[j])])

YearText(year_entries, year) ==
    YearBanner(year)
    \o Flatten([i \in 1..Len(SortedMonths(year_entries)) |->
                   MonthText(
                       OfMonth(year_entries, SortedMonths(year_entries)[i]),
                       SortedMonths(year_entries)[i])])

\* the records of one integer year
YearStructure(year_entries) ==
    LET ordered == InRenderOrder(year_entries, TRUE)
    IN  [k \in 1..Len(ordered) |-> AiStructureRecord(ordered[k])]

\* the unknown year: a banner, then the blocks with the months and the
\* locations in insertion order; nothing is appended to merged_structure
UnknownYearText(unknown_entries) ==
    IF Len(unknown_entries) = 0 THEN << >>
    ELSE LET ordered == InRenderOrder(unknown_entries, FALSE)
         IN  UnknownYearBanner
             \o Flatten([k \in 1..Len(ordered) |-> PlainBlock(ordered[k])])

\* the validation loop calls check_line_coverage for every page
ValidationRaises(pages) == \E i \in 1..Len(pages) : CoverageRaises(pages[i])

RECURSIVE SumOf(_)
SumOf(nums) == IF Len(nums) = 0 THEN 0 ELSE nums[1] + SumOf(Tail(nums))

\* the sums over the pages of len(coverage[...])
TotalInvalid(pages) ==
    SumOf([i \in 1..Len(pages) |->
              Len(check_line_coverage(pages[i]).value.invalid_ranges)])
TotalOverlapping(pages) ==
    SumOf([i \in 1..Len(pages) |->
              Len(check_line_coverage(pages[i]).value.overlapping_ranges)])
TotalMissing(pages) ==
    SumOf([i \in 1..Len(pages) |->
              Cardinality(check_line_coverage(pages[i]).value.missing_lines)])

\* the tags the extraction loop counts in skipped_invalid
SkippedInvalid(page) ==
    Cardinality({i \in 1..Len(LineTags(page)) :
        \/ ~Truthy(LineTags(page)[i].line_start)
        \/ ~Truthy(LineTags(page)[i].line_end)
        \/ ~TagValid(page, LineTags(page)[i])})

TotalSkipped(pages) ==
    SumOf([i \in 1..Len(pages) |-> SkippedInvalid(pages[i])])

\* what merge_by_ai_tags prints: the three validation totals when one of
\* them is not 0, the skipped tags when there are any, the extracted entries
ValidationSummary(pages) ==
    LET invalid     == TotalInvalid(pages)
        overlapping == TotalOverlapping(pages)
        missing     == TotalMissing(pages)
        skipped     == TotalSkipped(pages)
    IN  (IF invalid > 0 \/ overlapping > 0 \/ missing > 0
         THEN {[kind |-> "invalid_ranges", hint |-> 0, count |-> invalid],
               [kind |-> "overlapping_ranges", hint |-> 0,
                count |-> overlapping],
               [kind |-> "missing_lines", hint |-> 0, count |-> missing]}
         ELSE {[kind |-> "all_valid", hint |-> 0, count |-> 0]})
        \cup (IF skipped > 0
              THEN {[kind |-> "skipped_invalid", hint |-> 0, count |-> skipped]}
              ELSE {})
        \cup {[kind |-> "extracted", hint |-> 0,
               count |-> Len(LineRangeEntries(pages))]}

merge_by_ai_tags(pages) ==
    IF ValidationRaises(pages) THEN NoDocument
    ELSE LET entries == LineRangeEntries(pages)
             years   == SortedYears(entries)
         IN  [raised |-> FALSE,
              merged_text |->
                  Flatten([i \in 1..Len(years) |->
                              YearText(OfYear(entries, I(years[i])), years[i])])
                  \o UnknownYearText(OfYear(entries, I(UnknownYear))),
              merged_structure |->
                  Flatten([i \in 1..Len(years) |->
                              YearStructure(OfYear(entries, I(years[i])))])]

----------------------------------------------------------------------------
(* The run: main loads the two files and merges; the merge may be called     *)
(* again on the same objects                                                  *)

NoRun == [raised |-> FALSE, merged_text |-> << >>, merged_structure |-> << >>]
NoCall == [line_start |-> None, line_end |-> None, outcome |-> Raised]
NoCoverage == Raised
NoExtract == [line_start |-> None, line_end |-> None, outcome |-> Raised]

\* the oracle stage is not part of the run
OracleIdle ==
    /\ ruchama_i = 0
    /\ attempt = 0
    /\ oracle_points = << >>
    /\ log = << >>
    /\ page_base = 0
    /\ visited = << >>

Init ==
    /\ loaded \in [pages : TaggedInputs, insertion_points : HintInputs]
    /\ tagged_data = loaded.pages
    /\ insertion_data = loaded.insertion_points
    /\ pc = "loaded"
    /\ merged = NoRun
    /\ first = NoRun
    /\ report = {}
    /\ vlr = NoCall
    /\ insertion_loaded = TRUE
    /\ coverage = NoCoverage
    /\ ext = NoExtract
    /\ OracleIdle

\* what main prints after a merge: the number of merged line ranges
Summary(merged_structure) ==
    {[kind |-> "merged", hint |-> 0, count |-> Len(merged_structure)]}

\* what main prints before it calls a merge: which merge it runs
Announced(engine) == {[kind |-> engine, hint |-> 0, count |-> 0]}
SpliceEngine == "insertion_points_merge"
FallbackEngine == "chronological_merge"

\* main: "if insertion_data:" is true for a dict with keys, which is what the
\* insertion points file holds (its 'metadata' and its 'insertion_points',
\* filled or empty), and false for the None of a missing file; main announces
\* the splice merge or the grouped merge and calls it, then prints the
\* summary; an exception of the merge ends main before anything more is
\* written or printed
Main ==
    /\ pc = "loaded"
    /\ LET result == IF insertion_loaded
                     THEN merge_by_insertion_points(tagged_data, insertion_data)
                     ELSE merge_by_ai_tags(tagged_data)
           engine == IF insertion_loaded THEN SpliceEngine ELSE FallbackEngine
       IN  /\ merged' = result
           /\ pc' = IF result.raised THEN "main_raised" ELSE "main_done"
           /\ report' = Announced(engine) \cup
                        (IF result.raised THEN {}
                         ELSE IF insertion_loaded
                         THEN Summary(result.merged_structure)
                         ELSE ValidationSummary(tagged_data)
                                  \cup Summary(result.merged_structure))
    /\ tagged_data' = PagesAfterMerge(tagged_data)
    /\ UNCHANGED <<loaded, insertion_data, first, vlr, insertion_loaded, coverage,
                   ext, oracle_vars>>

\* merge_by_insertion_points called once more on the same objects
MergeAgain ==
    /\ pc \in {"main_done", "main_raised"}
    /\ first' = merged
    /\ merged' = merge_by_insertion_points(tagged_data, insertion_data)
    /\ tagged_data' = PagesAfterMerge(tagged_data)
    /\ pc' = "again"
    /\ UNCHANGED <<loaded, insertion_data, report, vlr, insertion_loaded,
                   coverage, ext, oracle_vars>>

Next == Main \/ MergeAgain

Spec == Init /\ [][Next]_vars

----------------------------------------------------------------------------
(* validate_line_range on its own: a page and two bounds, then the call *)

EmptyPage == Page("beit_markovski", 3, "cr3", << >>)

\* a page whose second line is missing: its last line number is not its length
GapPage ==
    [R1 EXCEPT !.lines = <<R1.lines[1], R1.lines[3]>>, !.page_number = 4]

ValidatorPages == PagePool \cup {EmptyPage, GapPage}

BoundValues == {None} \cup {I(n) : n \in (0 - 1)..MaxBound}

InitValidate ==
    /\ \E page \in ValidatorPages :
           loaded = [pages |-> <<page>>, insertion_points |-> << >>]
    /\ tagged_data = loaded.pages
    /\ insertion_data = << >>
    /\ pc = "loaded"
    /\ merged = NoRun
    /\ first = NoRun
    /\ report = {}
    /\ \E s, e \in BoundValues :
           vlr = [line_start |-> s, line_end |-> e, outcome |-> Raised]
    /\ insertion_loaded = TRUE
    /\ coverage = NoCoverage
    /\ ext = NoExtract
    /\ OracleIdle

\* the function reads page['lines'] and assigns nothing
ValidateCall ==
    /\ pc = "loaded"
    /\ vlr' = [vlr EXCEPT !.outcome =
                  validate_line_range(tagged_data[1], vlr.line_start,
                                      vlr.line_end)]
    /\ pc' = "validated"
    /\ UNCHANGED <<loaded, tagged_data, insertion_data, merged, first, report,
                   insertion_loaded, coverage, ext, oracle_vars>>

NextValidate == ValidateCall

SpecValidate == InitValidate /\ [][NextValidate]_vars

----------------------------------------------------------------------------
(* check_line_coverage on its own: a page with a tag list, then the call *)

\* a page whose second line holds only a blank
BlankPage == Page("beit_markovski", 5, "cr5", <<"w1a", " ">>)

CoveragePages == {R1, Y1, EmptyPage, GapPage, BlankPage}

\* the pairs of bounds of the tags: ranges of the three-line page that touch,
\* nest and lie apart, and bounds that are out of the page, inverted, zero,
\* negative, null or strings
CoverageBounds == {
    <<I(1), I(1)>>, <<I(1), I(2)>>, <<I(2), I(3)>>, <<I(3), I(3)>>,
    <<I(1), I(3)>>,
    <<I(2), I(5)>>, <<I(3), I(1)>>, <<I(0), I(1)>>, <<I(0 - 1), I(2)>>,
    <<None, I(1)>>, <<I(1), None>>, <<S("1"), S("2")>> }

CoverageTags == {Tag(b[1], b[2], None, "", "", "medium") : b \in CoverageBounds}

CoverageTagLists == UNION {[1..n -> CoverageTags] : n \in 0..MaxTags}

\* the pages handed to the check: without a line_tags entry, or with a list
CoverageInputs ==
    CoveragePages
        \cup {WithTags(page, line_tags) :
                 page \in CoveragePages, line_tags \in CoverageTagLists}

InitCoverage ==
    /\ \E page \in CoverageInputs :
           loaded = [pages |-> <<page>>, insertion_points |-> << >>]
    /\ tagged_data = loaded.pages
    /\ insertion_data = << >>
    /\ pc = "loaded"
    /\ merged = NoRun
    /\ first = NoRun
    /\ report = {}
    /\ vlr = NoCall
    /\ insertion_loaded = TRUE
    /\ coverage = NoCoverage
    /\ ext = NoExtract
    /\ OracleIdle

\* the function reads the page and assigns nothing of it
CoverageCall ==
    /\ pc = "loaded"
    /\ coverage' = check_line_coverage(tagged_data[1])
    /\ pc' = "covered"
    /\ UNCHANGED <<loaded, tagged_data, insertion_data, merged, first, report,
                   vlr, insertion_loaded, ext, oracle_vars>>

NextCoverage == CoverageCall

SpecCoverage == InitCoverage /\ [][NextCoverage]_vars

----------------------------------------------------------------------------
(* extract_text_from_line_range on its own: a page and two bounds, then the *)
(* call                                                                      *)

ExtractPages == ValidatorPages \cup {BlankPage}

InitExtract ==
    /\ \E page \in ExtractPages :
           loaded = [pages |-> <<page>>, insertion_points |-> << >>]
    /\ tagged_data = loaded.pages
    /\ insertion_data = << >>
    /\ pc = "loaded"
    /\ merged = NoRun
    /\ first = NoRun
    /\ report = {}
    /\ vlr = NoCall
    /\ insertion_loaded = TRUE
    /\ coverage = NoCoverage
    /\ \E s, e \in BoundValues :
           ext = [line_start |-> s, line_end |-> e, outcome |-> Raised]
    /\ OracleIdle

\* the function reads page['lines'] and assigns nothing of the page
ExtractCall ==
    /\ pc = "loaded"
    /\ ext' = [ext EXCEPT !.outcome =
                  extract_text_from_line_range(tagged_data[1], ext.line_start,
                                               ext.line_end)]
    /\ pc' = "extracted"
    /\ UNCHANGED <<loaded, tagged_data, insertion_data, merged, first, report,
                   vlr, insertion_loaded, coverage, oracle_vars>>

NextExtract == ExtractCall

SpecExtract == InitExtract /\ [][NextExtract]_vars

----------------------------------------------------------------------------
(* main without an insertion points file: the grouped merge of tagged pages *)

\* the tags the tagging oracle may hand over, each for one page: years in and
\* out of order and null, months of the table and not, named and null
\* locations, a range of a blank line, a range past the page, a year and
\* bounds that are strings, and two tags of one year, page number and line
\* on pages of the two books
TaggedRanges == {
    [page |-> Y1, tag |-> Tag(I(1), I(1), I(1905), "", "", "high")],
    [page |-> Y1, tag |-> Tag(I(2), I(2), I(1904), "", "", "high")],
    [page |-> Y1, tag |-> Tag(I(1), I(2), None, "", "", "low")],
    [page |-> Y2, tag |-> Tag(I(1), I(1), None, "", "", "medium")],
    [page |-> Y2, tag |-> Tag(I(1), I(1), I(1904), "merts", "jaffa", "high")],
    [page |-> R1, tag |-> Tag(I(1), I(1), I(1904), "yanuar", "metula", "high")],
    [page |-> R1, tag |-> Tag(I(3), I(3), I(1905), "", "zikhron", "low")],
    [page |-> R1, tag |-> Tag(I(2), I(2), I(1904), "", "", "high")],
    [page |-> R1, tag |-> Tag(I(2), I(5), I(1904), "", "", "high")],
    [page |-> R1, tag |-> Tag(I(1), I(3), None, "nisan", "", "medium")],
    [page |-> Y2, tag |-> Tag(I(1), I(1), I(1904), "nisan", "", "low")],
    [page |-> R1, tag |-> Tag(I(1), I(1), I(1905), "", "", "medium")],
    [page |-> R1, tag |-> Tag(I(1), I(1), S("1904"), "", "", "high")],
    [page |-> R1, tag |-> Tag(S("1"), S("2"), I(1904), "", "", "high")] }

TaggedRangeLists == UNION {[1..n -> TaggedRanges] : n \in 0..MaxTags}

\* the line_tags of a page: its tags, in the order of the list
TagsFor(page, ranges) ==
    LET own == SelectSeq(ranges, LAMBDA r : r.page = page)
    IN  [k \in 1..Len(own) |-> own[k].tag]

PagesWithTags(pages, ranges) ==
    [i \in 1..Len(pages) |-> WithTags(pages[i], TagsFor(pages[i], ranges))]

FallbackPageLists == {<<Y1, Y2, R1>>, <<R1, Y2, Y1>>}

InitFallback ==
    /\ \E pages \in FallbackPageLists, ranges \in TaggedRangeLists :
           loaded = [pages |-> PagesWithTags(pages, ranges),
                     insertion_points |-> << >>]
    /\ tagged_data = loaded.pages
    /\ insertion_data = << >>
    /\ pc = "loaded"
    /\ merged = NoRun
    /\ first = NoRun
    /\ report = {}
    /\ vlr = NoCall
    /\ insertion_loaded = FALSE
    /\ coverage = NoCoverage
    /\ ext = NoExtract
    /\ OracleIdle

NextFallback == Main

SpecFallback == InitFallback /\ [][NextFallback]_vars

----------------------------------------------------------------------------
(* determine_insertion_points_for_pages: the pages of the secondary source  *)
(* one after the other, each with up to MAX_RETRIES calls of the oracle      *)

MAX_RETRIES == 3

\* a paragraph of the oracle's answer: a JSON object with its fields, a field
\* null (None) or left out
Paragraph(ls, le, ap, al, why, conf) ==
    [object |-> TRUE, source_line_start |-> ls, source_line_end |-> le,
     insert_after_page |-> ap, insert_after_line |-> al,
     insert_reason |-> why, confidence |-> conf]

\* an entry of the paragraphs list that is no JSON object (null, a number)
NotObject == [object |-> FALSE]

\* the non-empty paragraphs lists the oracle may answer with: complete
\* paragraphs, paragraphs with a null, one with the three numbers only, and
\* lists with an entry that is no object
ParagraphLists ==
    LET PA == Paragraph(I(1), I(1), I(1), I(0), "a", "high")
        PB == Paragraph(I(3), I(3), I(2), I(1), "b", "low")
        PNullEnd == Paragraph(I(1), None, I(1), I(0), "c", "high")
        PNullPage == Paragraph(I(2), I(3), None, I(0), "d", "medium")
        PBare == [object |-> TRUE, source_line_start |-> I(2),
                  source_line_end |-> I(2), insert_after_page |-> I(1)]
    IN  {<<PA>>, <<PA, PB>>, <<PB, PA>>, <<PNullEnd, PB>>, <<PNullPage>>,
         <<PBare>>, <<PA, NotObject>>, <<NotObject, PA>>}

\* what a call of genai_model.generate_content yielded
Response(kind, paragraphs) == [kind |-> kind, paragraphs |-> paragraphs]

\* para.get(field, default)
Get(para, field, default) ==
    IF field \in DOMAIN para THEN para[field] ELSE default

\* the insertion point appended for a paragraph of a page
InsertionPoint(page, para) ==
    [source_page |-> I(page.page_number), source_chapter |-> page.chapter,
     source_line_start |-> para.source_line_start,
     source_line_end |-> para.source_line_end,
     insert_after_page |-> para.insert_after_page,
     insert_after_line |-> Get(para, "insert_after_line", I(0)),
     insert_reason |-> Get(para, "insert_reason", ""),
     confidence |-> Get(para, "confidence", "medium")]

\* the three values that must not be None
Complete(para) ==
    /\ para.source_line_start # None
    /\ para.source_line_end # None
    /\ para.insert_after_page # None

\* "for para in paragraphs": para.get raises AttributeError at the first
\* entry that is no object, after the entries before it were handled
ParagraphsRaise(paragraphs) ==
    \E k \in 1..Len(paragraphs) : ~paragraphs[k].object

RECURSIVE Appended(_, _)
Appended(page, paragraphs) ==
    IF Len(paragraphs) = 0 THEN << >>
    ELSE IF ~paragraphs[1].object THEN << >>
    ELSE (IF Complete(paragraphs[1])
          THEN <<InsertionPoint(page, paragraphs[1])>> ELSE << >>)
         \o Appended(page, Tail(paragraphs))

\* get_ruchama_pages(tagged_data)
ruchama_pages == BookPages(tagged_data, Ruchama)

\* the page lists of the stage: two, one and no page of the secondary source
OraclePageLists == {<<R2, Y1, R1, Y2>>, <<Y1, R1>>, <<R1, R2>>, <<Y1, Y2>>}

InitOracle ==
    /\ \E pages \in OraclePageLists :
           loaded = [pages |-> pages, insertion_points |-> << >>]
    /\ tagged_data = loaded.pages
    /\ insertion_data = << >>
    /\ pc = "pages"
    /\ merged = NoRun
    /\ first = NoRun
    /\ report = {}
    /\ vlr = NoCall
    /\ insertion_loaded = FALSE
    /\ coverage = NoCoverage
    /\ ext = NoExtract
    /\ OracleIdle

\* the variables of the merge stage
merge_vars ==
    <<loaded, tagged_data, insertion_data, merged, first, report, vlr,
      insertion_loaded, coverage, ext>>

\* the head of "for i, ruchama_page in enumerate(ruchama_pages, 1)": the next
\* page, with attempt 0 of "for attempt in range(MAX_RETRIES)"
BeginPage ==
    /\ pc = "pages"
    /\ ruchama_i < Len(ruchama_pages)
    /\ ruchama_i' = ruchama_i + 1
    /\ attempt' = 0
    /\ log' = << >>
    /\ page_base' = Len(oracle_points)
    /\ visited' = Append(visited, ruchama_pages[ruchama_i + 1].page_number)
    /\ pc' = "attempt"
    /\ UNCHANGED <<oracle_points, merge_vars>>

\* "continue" when an attempt is left, else "break" (or the end of the range)
RetryOrGiveUp ==
    IF attempt < MAX_RETRIES - 1
    THEN attempt' = attempt + 1 /\ pc' = "attempt"
    ELSE attempt' = attempt /\ pc' = "pages"

\* an attempt whose call yields nothing to record
FailedAttempt(kind) ==
    /\ log' = Append(log, Response(kind, << >>))
    /\ RetryOrGiveUp
    /\ UNCHANGED <<ruchama_i, oracle_points, page_base, visited, merge_vars>>

\* generate_content (or reading response.text) raises: "except Exception"
AttemptRaises ==
    /\ pc = "attempt"
    /\ FailedAttempt("raised")

\* "if not response or not response.text"
AttemptEmpty ==
    /\ pc = "attempt"
    /\ FailedAttempt("empty")

\* json.loads raises JSONDecodeError
AttemptUnparseable ==
    /\ pc = "attempt"
    /\ FailedAttempt("unparseable")

\* the JSON is no object: result_data.get raises AttributeError, which
\* "except Exception" handles
AttemptNotObject ==
    /\ pc = "attempt"
    /\ FailedAttempt("not_object")

\* the JSON has no 'paragraphs', or an empty list
AttemptNoParagraphs ==
    /\ pc = "attempt"
    /\ FailedAttempt("no_paragraphs")

\* the JSON has a non-empty paragraphs list: the complete paragraphs are
\* appended one by one; "break" after the last, or the exception handler
\* when an entry is no object
AttemptParagraphs ==
    /\ pc = "attempt"
    /\ \E paragraphs \in ParagraphLists :
           /\ log' = Append(log, Response("paragraphs", paragraphs))
           /\ oracle_points' =
                  oracle_points
                      \o Appended(ruchama_pages[ruchama_i], paragraphs)
           /\ IF ParagraphsRaise(paragraphs) THEN RetryOrGiveUp
              ELSE attempt' = attempt /\ pc' = "pages"
    /\ UNCHANGED <<ruchama_i, page_base, visited, merge_vars>>

\* "return insertion_points" after the last page
ReturnPoints ==
    /\ pc = "pages"
    /\ ruchama_i = Len(ruchama_pages)
    /\ pc' = "returned"
    /\ UNCHANGED <<oracle_vars, merge_vars>>

NextOracle ==
    \/ BeginPage
    \/ AttemptRaises
    \/ AttemptEmpty
    \/ AttemptUnparseable
    \/ AttemptNotObject
    \/ AttemptNoParagraphs
    \/ AttemptParagraphs
    \/ ReturnPoints

SpecOracle == InitOracle /\ [][NextOracle]_vars

\* the loop runs on: no step of it waits for anything but the oracle's answer
FairSpecOracle == SpecOracle /\ WF_vars(NextOracle)

----------------------------------------------------------------------------
(* Properties of the splice merge *)

Range(seq) == {seq[i] : i \in 1..Len(seq)}

\* a call of the merge has ended, and it has returned a document
Called == pc \in {"main_done", "main_raised", "again"}
Returns == Called /\ ~merged.raised

\* every number of every hint is an integer, as the hint format has it
TypedHint(ip) ==
    /\ IsInt(ip.source_page)
    /\ IsInt(ip.source_line_start) /\ IsInt(ip.source_line_end)
    /\ IsInt(ip.insert_after_page) /\ IsInt(ip.insert_after_line)

TypedHints == \A ip \in Range(insertion_data) : TypedHint(ip)

BasePages == SelectSeq(tagged_data, LAMBDA p : p.book_id = Yehuda)
BasePageNumbers == {p.page_number : p \in Range(BasePages)}

UniqueBasePages ==
    \A i, j \in 1..Len(BasePages) :
        i # j => BasePages[i].page_number # BasePages[j].page_number

BaseRecords == SelectSeq(merged.merged_structure, LAMBDA r : r.book = Yehuda)
PlacedRecords == SelectSeq(merged.merged_structure, LAMBDA r : r.book = Ruchama)

BaseHeaders == {Header(YehudaSegment(p)) : p \in PagePool}
BaseHeadersOfText == SelectSeq(merged.merged_text, LAMBDA tok : tok \in BaseHeaders)

Ascending(nums) == \A i, j \in 1..Len(nums) : i < j => nums[i] < nums[j]

\* C1: with unique base page numbers, the document the merge returns (it
\* returns one for every list of hints whose numbers are integers) holds
\* exactly one base segment per base page, in ascending page-number order,
\* in the manifest and in the text, whatever the order of the pages in the
\* input.
C1_BaseSegmentsOncePerPageAscending ==
    /\ (Called /\ TypedHints) => ~merged.raised
    /\ (Returns /\ UniqueBasePages) =>
        /\ Len(BaseRecords) = Len(BasePages)
        /\ {r.page : r \in Range(BaseRecords)} = BasePageNumbers
        /\ Ascending([i \in 1..Len(BaseRecords) |-> BaseRecords[i].page])
        /\ Len(BaseHeadersOfText) = Len(BaseRecords)
        /\ \A i \in 1..Len(BaseRecords) :
              \E p \in Range(BasePages) :
                  /\ p.page_number = BaseRecords[i].page
                  /\ BaseHeadersOfText[i] = Header(YehudaSegment(p))

C1_Witness ==
    /\ Returns
    /\ Len(BasePages) = 2
    /\ BasePages[1].page_number > BasePages[2].page_number
    /\ Len(PlacedRecords) = 2
    /\ PlacedRecords[1].inserted_after_page = I(2)

\* the pages of the secondary source with the hint's source page number
SourcePagesOf(ip) ==
    {p \in Range(tagged_data) :
        p.book_id = Ruchama /\ I(p.page_number) = ip.source_page}

SourcePageExists(ip) == SourcePagesOf(ip) # {}

LineNumbers(page) == {page.lines[i].line_number : i \in 1..Len(page.lines)}

\* 1 <= start <= end <= the page's last line number
InBounds(page, line_start, line_end) ==
    /\ IsInt(line_start) /\ IsInt(line_end)
    /\ 1 <= V(line_start)
    /\ V(line_start) <= V(line_end)
    /\ \E n \in LineNumbers(page) : V(line_end) <= n

\* the hint's range is a valid range of an existing page of the secondary source
ValidHint(ip) ==
    /\ SourcePageExists(ip)
    /\ \A p \in SourcePagesOf(ip) :
          InBounds(p, ip.source_line_start, ip.source_line_end)

Triple(ip) == <<ip.source_page, ip.source_line_start, ip.source_line_end>>

DistinctTriples ==
    \A i, j \in 1..Len(insertion_data) :
        i # j => Triple(insertion_data[i]) # Triple(insertion_data[j])

\* the manifest records of the triple of hint ip
RecordsOf(ip) ==
    {k \in 1..Len(PlacedRecords) :
        /\ I(PlacedRecords[k].page) = ip.source_page
        /\ PlacedRecords[k].line_start = ip.source_line_start
        /\ PlacedRecords[k].line_end = ip.source_line_end}

CarriesTarget(r, ip) ==
    /\ r.inserted_after_page = ip.insert_after_page
    /\ r.inserted_after_line = ip.insert_after_line
    /\ r.insert_reason = ip.insert_reason
    /\ r.confidence = ip.confidence

\* C2: when the hints reference pairwise distinct triples, each a valid range
\* of an existing secondary page, the document the merge returns (it returns
\* one when the target positions are integers) holds exactly one placed
\* segment per hint, with that hint's line range and target position.
C2_OnePlacedSegmentPerHint ==
    /\ (/\ Called
        /\ TypedHints
        /\ \A i \in 1..Len(insertion_data) : ValidHint(insertion_data[i]))
       => ~merged.raised
    /\ (/\ Returns
        /\ DistinctTriples
        /\ \A i \in 1..Len(insertion_data) : ValidHint(insertion_data[i])) =>
        /\ Len(PlacedRecords) = Len(insertion_data)
        /\ \A i \in 1..Len(insertion_data) :
              /\ Cardinality(RecordsOf(insertion_data[i])) = 1
              /\ \A k \in RecordsOf(insertion_data[i]) :
                    CarriesTarget(PlacedRecords[k], insertion_data[i])

C2_Witness ==
    /\ Returns
    /\ Len(insertion_data) = 2
    /\ DistinctTriples
    /\ \A i \in 1..Len(insertion_data) : ValidHint(insertion_data[i])
    /\ insertion_data[1].source_line_start = insertion_data[2].source_line_start
    /\ Len(PlacedRecords) = 2

FirstOf(ip) ==
    CHOOSE i \in 1..Len(insertion_data) :
        /\ Triple(insertion_data[i]) = Triple(ip)
        /\ \A j \in 1..Len(insertion_data) :
              Triple(insertion_data[j]) = Triple(ip) => i <= j

Repeated(ip) ==
    Cardinality({i \in 1..Len(insertion_data) :
                    Triple(insertion_data[i]) = Triple(ip)}) > 1

\* C4: when several hints reference the same triple of an existing secondary
\* page, the document the merge returns (it returns one when the numbers of
\* the hints are integers) holds exactly one placed segment for the triple,
\* with the target page, target line, reason and confidence of the first of
\* them in input order.
C4_DuplicateTripleFirstSeenWins ==
    /\ (Called /\ TypedHints) => ~merged.raised
    /\ Returns =>
        \A ip \in Range(insertion_data) :
            (Repeated(ip) /\ SourcePageExists(ip)) =>
                /\ Cardinality(RecordsOf(ip)) = 1
                /\ \A k \in RecordsOf(ip) :
                      CarriesTarget(PlacedRecords[k],
                                    insertion_data[FirstOf(ip)])

C4_Witness ==
    /\ Returns
    /\ Len(insertion_data) = 2
    /\ Triple(insertion_data[1]) = Triple(insertion_data[2])
    /\ insertion_data[1].insert_after_page # insertion_data[2].insert_after_page
    /\ Len(PlacedRecords) = 1
    /\ PlacedRecords[1].inserted_after_page = insertion_data[1].insert_after_page

\* hint i is the one its triple's segment is built from
Placed(i) ==
    /\ SourcePageExists(insertion_data[i])
    /\ FirstOf(insertion_data[i]) = i

\* C5: every hint that produced no placed segment (a later duplicate, a
\* missing source page) has an entry in the run's report, as skipped or failed.
C5_EveryDroppedHintReported ==
    pc = "main_done" =>
        \A i \in 1..Len(insertion_data) :
            \/ Placed(i)
            \/ \E r \in report : r.kind \in {"skipped", "failed"} /\ r.hint = i

WithoutHint(hints, i) ==
    [k \in 1..(Len(hints) - 1) |-> IF k < i THEN hints[k] ELSE hints[k + 1]]

\* C6: a hint whose source page is not a page of the secondary source
\* contributes no placed segment, and the call produces what it produces
\* without that hint.
C6_MissingSourcePageIsSkipped ==
    pc # "loaded" =>
        \A i \in 1..Len(insertion_data) :
            ~SourcePageExists(insertion_data[i]) =>
                /\ RecordsOf(insertion_data[i]) = {}
                /\ merged = merge_by_insertion_points(
                                tagged_data, WithoutHint(insertion_data, i))

C6_Witness ==
    /\ Returns
    /\ Len(insertion_data) = 2
    /\ insertion_data[1].source_page = I(9)
    /\ ValidHint(insertion_data[2])
    /\ Len(PlacedRecords) = 1

\* C7: a returned document holds placed segments of valid ranges only: a hint
\* whose range is invalid for its page yields no placed segment.
C7_InvalidRangeRejected ==
    Returns =>
        \A r \in Range(PlacedRecords) :
            \A p \in Range(tagged_data) :
                (p.book_id = Ruchama /\ p.page_number = r.page) =>
                    InBounds(p, r.line_start, r.line_end)

\* C8: a returned document holds no placed segment whose target page is not
\* the page number of a base page.
C8_UnknownTargetPageDropped ==
    Returns =>
        \A r \in Range(PlacedRecords) :
            \E n \in BasePageNumbers : r.inserted_after_page = I(n)

\* the manifest of the returned document, and its records by kind
Structure == merged.merged_structure
IsBase(k) == Structure[k].book = Yehuda
IsPlaced(k) == Structure[k].book = Ruchama
TargetPage(k) == Structure[k].inserted_after_page
TargetLine(k) == Structure[k].inserted_after_line

\* record k is of a placed segment that goes after the whole of base page p
AfterWholePage(k, p) ==
    /\ IsPlaced(k) /\ TargetPage(k) = I(p) /\ TargetLine(k) = I(0)
    /\ p \in BasePageNumbers

\* C15: in a returned document (the merge returns one when the numbers of
\* the hints are integers) a placed segment with target line 0 on base page p
\* stands after the base segment of p, before the base segments of the later
\* pages and before the placed segments that target a later page; base pages
\* 1 and 2 with one such hint on page 1 give base 1, placed, base 2.
C15_LineZeroAfterPageBeforeNext ==
    /\ (Called /\ TypedHints) => ~merged.raised
    /\ Returns =>
        \A k \in 1..Len(Structure) : \A p \in BasePageNumbers :
            AfterWholePage(k, p) =>
                \A j \in 1..Len(Structure) :
                    /\ (IsBase(j) /\ Structure[j].page = p) => j < k
                    /\ (IsBase(j) /\ Structure[j].page > p) => k < j
                    /\ (IsPlaced(j) /\ IsInt(TargetPage(j))
                            /\ V(TargetPage(j)) > p) => k < j
    /\ (/\ Returns /\ UniqueBasePages /\ BasePageNumbers = {1, 2}
        /\ Len(insertion_data) = 1 /\ ValidHint(insertion_data[1])
        /\ insertion_data[1].insert_after_page = I(1)
        /\ insertion_data[1].insert_after_line = I(0)) =>
            /\ Len(Structure) = 3
            /\ IsBase(1) /\ Structure[1].page = 1
            /\ AfterWholePage(2, 1)
            /\ IsBase(3) /\ Structure[3].page = 2

\* a hint after the whole of page 1, and one that targets page 2
C15_Witness ==
    /\ Returns /\ UniqueBasePages /\ BasePageNumbers = {1, 2}
    /\ Len(Structure) = 4
    /\ IsBase(1) /\ AfterWholePage(2, 1) /\ IsBase(3) /\ IsPlaced(4)
    /\ TargetPage(4) = I(2)
    /\ insertion_data[1].insert_after_page = I(2)

\* C17: the merge returns a document for every list of hints, null bounds and
\* null targets included.
C17_MergeAlwaysCompletes ==
    Called => ~merged.raised

\* the pages of one source have distinct numbers, and the lines of a page
\* are numbered 1..N
UniquePages(book) ==
    \A i, j \in 1..Len(tagged_data) :
        (/\ i # j
         /\ tagged_data[i].book_id = book /\ tagged_data[j].book_id = book)
            => tagged_data[i].page_number # tagged_data[j].page_number
DenseLines(page) ==
    \A n \in 1..Len(page.lines) : page.lines[n].line_number = n
WellFormedSources ==
    /\ UniquePages(Yehuda) /\ UniquePages(Ruchama)
    /\ \A page \in Range(tagged_data) : DenseLines(page)

\* C18: the merge returns no document built from a source with two pages of
\* the same number or a page whose lines are not numbered 1..N.
C18_BrokenSourceAborts ==
    Returns => WellFormedSources

\* the sort key of record k, and the order of two keys
KeyOf(k) ==
    IF IsBase(k) THEN <<Structure[k].page, 0, 0>>
    ELSE <<V(TargetPage(k)), V(TargetLine(k)), 1>>
KeyAtMost(a, b) ==
    \/ a[1] < b[1]
    \/ a[1] = b[1] /\ a[2] < b[2]
    \/ a[1] = b[1] /\ a[2] = b[2] /\ a[3] <= b[3]

\* the first hint, in input order, with the triple of placed record k
HintOf(k) ==
    CHOOSE i \in 1..Len(insertion_data) :
        /\ Triple(insertion_data[i])
              = <<I(Structure[k].page), Structure[k].line_start,
                  Structure[k].line_end>>
        /\ \A j \in 1..(i - 1) :
              Triple(insertion_data[j]) # Triple(insertion_data[i])

\* C20: in a returned document (the merge returns one when the numbers of
\* the hints are integers) the segments stand in the order of the key (page,
\* line, tier): at one (page, line) the base segment comes before every
\* placed segment, and placed segments with one target stand in the order in
\* which their hints first occur in the input.
C20_KeyOrderStable ==
    /\ (Called /\ TypedHints) => ~merged.raised
    /\ (Returns /\ TypedHints) =>
        \A j, k \in 1..Len(Structure) :
            /\ j < k => KeyAtMost(KeyOf(j), KeyOf(k))
            /\ (IsBase(j) /\ IsPlaced(k) /\ TargetPage(k) = I(Structure[j].page)
                    /\ TargetLine(k) = I(0)) => j < k
            /\ (/\ IsPlaced(j) /\ IsPlaced(k) /\ j < k
                /\ TargetPage(j) = TargetPage(k)
                /\ TargetLine(j) = TargetLine(k)) => HintOf(j) < HintOf(k)

\* two hints with one target, the one of the later lines listed first
C20_Witness ==
    /\ Returns /\ TypedHints
    /\ Len(insertion_data) = 2
    /\ insertion_data[1].insert_after_page = insertion_data[2].insert_after_page
    /\ insertion_data[1].insert_after_line = insertion_data[2].insert_after_line
    /\ V(insertion_data[1].source_line_start)
          > V(insertion_data[2].source_line_start)
    /\ Len(Structure) = 4
    /\ IsBase(1) /\ IsPlaced(2) /\ IsPlaced(3) /\ IsBase(4)
    /\ TargetPage(2) = I(Structure[1].page) /\ TargetLine(2) = I(0)
    /\ Structure[2].line_start = insertion_data[1].source_line_start
    /\ Structure[3].line_start = insertion_data[2].source_line_start

\* the header of the placed segment of hint ip, of a page of the secondary
\* source
PlacedHeaderOf(ip, page) ==
    Header(PlacedSegment(ip, [page |-> page, text |-> << >>]))

\* the base pages numbered p, and the number of lines of such a page
BasePagesNumbered(p) == {page \in Range(BasePages) : page.page_number = p}
LineCount(page) == Len(page.lines)

\* record k is of a placed segment whose target line is past the end of
\* base page p
PastEndOfPage(k, p) ==
    /\ IsPlaced(k) /\ TargetPage(k) = I(p) /\ IsInt(TargetLine(k))
    /\ BasePagesNumbered(p) # {}
    /\ \A page \in BasePagesNumbered(p) : V(TargetLine(k)) > LineCount(page)

\* the lines start..end of a page whose lines are numbered 1..N, joined
LinesJoined(page, start, end) ==
    JoinLines([n \in 1..(end - start + 1) |-> page.lines[start + n - 1].text])

\* the text has the block of placed record k: its header, then the whole of
\* the lines of its range
BlockInText(k) ==
    \E ip \in Range(insertion_data) : \E page \in SourcePagesOf(ip) :
        /\ I(Structure[k].page) = ip.source_page
        /\ Structure[k].line_start = ip.source_line_start
        /\ Structure[k].line_end = ip.source_line_end
        /\ LET block == <<NL, PlacedHeaderOf(ip, page), NL>>
                            \o LinesJoined(page, V(ip.source_line_start),
                                           V(ip.source_line_end))
                            \o <<NL>>
           IN  \E n \in 0..(Len(merged.merged_text) - Len(block)) :
                  SubSeq(merged.merged_text, n + 1, n + Len(block)) = block

\* C21: in a returned document (the merge returns one when the numbers of
\* the hints are integers) a placed segment with a target line >= 0 on an
\* existing base page p stands after the base segment of p; one whose target
\* line is past the last line of p stands before the base segments of the
\* later pages as well; and a hint of a valid range whose target line is past
\* the end is not dropped: its segment is in the manifest and in the text,
\* with all the lines of its range.
C21_PastEndKeptAfterItsPage ==
    /\ (Called /\ TypedHints) => ~merged.raised
    /\ Returns =>
        /\ \A k \in 1..Len(Structure) : \A p \in BasePageNumbers :
              /\ (/\ IsPlaced(k) /\ TargetPage(k) = I(p)
                  /\ IsInt(TargetLine(k)) /\ V(TargetLine(k)) >= 0) =>
                     \A j \in 1..Len(Structure) :
                         (IsBase(j) /\ Structure[j].page = p) => j < k
              /\ PastEndOfPage(k, p) =>
                     \A j \in 1..Len(Structure) :
                         (IsBase(j) /\ Structure[j].page > p) => k < j
        /\ \A i \in 1..Len(insertion_data) :
              LET ip == insertion_data[i] IN
              (/\ ValidHint(ip) /\ Placed(i)
               /\ IsInt(ip.insert_after_page) /\ IsInt(ip.insert_after_line)
               /\ \E page \in BasePagesNumbered(V(ip.insert_after_page)) :
                      V(ip.insert_after_line) > LineCount(page)) =>
                  \E k \in RecordsOf(ip) :
                      LET r == PlacedRecords[k] IN
                      /\ CarriesTarget(r, ip)
                      /\ \E m \in 1..Len(Structure) :
                            Structure[m] = r /\ BlockInText(m)

\* a hint of lines 1..3 after line 5 of the two-line page 1, rendered between
\* the base pages 1 and 2
C21_Witness ==
    /\ Returns /\ UniqueBasePages /\ BasePageNumbers = {1, 2}
    /\ Len(Structure) = 3
    /\ IsBase(1) /\ Structure[1].page = 1
    /\ PastEndOfPage(2, 1) /\ TargetLine(2) = I(5)
    /\ Structure[2].line_start = I(1) /\ Structure[2].line_end = I(3)
    /\ BlockInText(2)
    /\ IsBase(3) /\ Structure[3].page = 2

\* where the text has a token, and where it has the header of placed record k
TokenPositions(tok) ==
    {m \in 1..Len(merged.merged_text) : merged.merged_text[m] = tok}
HeaderPositions(k) ==
    {m \in 1..Len(merged.merged_text) :
        \E ip \in Range(insertion_data) : \E page \in SourcePagesOf(ip) :
            /\ I(Structure[k].page) = ip.source_page
            /\ Structure[k].line_start = ip.source_line_start
            /\ Structure[k].line_end = ip.source_line_end
            /\ merged.merged_text[m] = PlacedHeaderOf(ip, page)}

\* C22: in a returned document of base pages with distinct numbers a placed
\* segment with target line n >= 1 on a base page of more than n lines
\* stands in the text between line n and line n + 1 of that page.
C22_SplicedBetweenLines ==
    (Returns /\ UniqueBasePages) =>
        \A k \in 1..Len(Structure) : \A page \in Range(BasePages) :
            (/\ IsPlaced(k) /\ TargetPage(k) = I(page.page_number)
             /\ IsInt(TargetLine(k)) /\ V(TargetLine(k)) >= 1
             /\ LineCount(page) > V(TargetLine(k))) =>
                LET n == V(TargetLine(k)) IN
                \A h \in HeaderPositions(k) :
                    /\ \A tok \in Range(page.lines[n].text) :
                          \A m \in TokenPositions(tok) : m < h
                    /\ \A tok \in Range(page.lines[n + 1].text) :
                          \A m \in TokenPositions(tok) : h < m

----------------------------------------------------------------------------
(* Properties of validate_line_range *)

\* the page of the call, its last line number (0 without lines), and what
\* the call returned
CallPage == tagged_data[1]
LastLine ==
    IF LineNumbers(CallPage) = {} THEN 0
    ELSE CHOOSE n \in LineNumbers(CallPage) :
             \A k \in LineNumbers(CallPage) : k <= n
Verdict == vlr.outcome.value

IntegerBounds == IsInt(vlr.line_start) /\ IsInt(vlr.line_end)

\* C9: for integer bounds the call accepts exactly 1 <= start <= end <= the
\* page's last line number, and otherwise answers with the first failing test
\* of: a bound below 1, start > end, end past the last line.
C9_ValidExactlyInBoundsErrorsInOrder ==
    (pc = "validated" /\ IntegerBounds) =>
        LET s == V(vlr.line_start)
            e == V(vlr.line_end)
        IN  /\ ~vlr.outcome.raised
            /\ Verdict.valid <=> (1 <= s /\ s <= e /\ e <= LastLine)
            /\ (s < 1 \/ e < 1) => Verdict.reason = NonPositiveMsg
            /\ (s >= 1 /\ e >= 1 /\ s > e) =>
                  Verdict.reason = InvertedMsg(vlr.line_start, vlr.line_end)
            /\ (s >= 1 /\ e >= 1 /\ s <= e /\ e > LastLine) =>
                  Verdict.reason = OutOfBoundsMsg(vlr.line_end, LastLine)
            /\ LastLine = 0 => ~Verdict.valid

C9_Witness ==
    /\ pc = "validated"
    /\ IntegerBounds
    /\ LastLine = 3
    /\ V(vlr.line_start) = 0
    /\ V(vlr.line_end) = 4
    /\ Verdict.reason = NonPositiveMsg

\* C10: the call raises for no page and no pair of bounds, a null bound
\* included: it returns a verdict (invalid when a bound is not an integer)
\* and leaves the page as it was.
C10_NeverRaisesPageUntouched ==
    pc = "validated" =>
        /\ ~vlr.outcome.raised
        /\ Verdict.valid \in BOOLEAN
        /\ ~IntegerBounds => ~Verdict.valid
        /\ tagged_data = loaded.pages

C10_Witness ==
    /\ pc = "validated"
    /\ vlr.line_start = None
    /\ IsInt(vlr.line_end)
    /\ LastLine = 3
    /\ ~vlr.outcome.raised
    /\ ~Verdict.valid

----------------------------------------------------------------------------
(* Properties of check_line_coverage *)

Covered == pc = "covered"
Coverage == coverage.value
CallTags == LineTags(CallPage)

\* tag i of the call has a valid range of the page
ValidTag(i) == InBounds(CallPage, CallTags[i].line_start, CallTags[i].line_end)
ValidTags == {i \in 1..Len(CallTags) : ValidTag(i)}
LinesOfTag(i) == V(CallTags[i].line_start)..V(CallTags[i].line_end)

\* the lines of the page whose text is more than whitespace
NonBlankLines ==
    {CallPage.lines[k].line_number :
        k \in {n \in 1..Len(CallPage.lines) :
                  \E c \in Range(CallPage.lines[n].text) : c \notin WhiteSpace}}

\* C11: for every page and tag list (empty or absent included) a call that
\* returns gives as covered lines the union of the valid ranges and as
\* missing lines the non-empty lines that no valid range covers, so an empty
\* line is never a gap.
C11_CoveredAndGapsExact ==
    (Covered /\ ~coverage.raised) =>
        /\ Coverage.covered_lines = UNION {LinesOfTag(i) : i \in ValidTags}
        /\ Coverage.missing_lines
              = NonBlankLines \ UNION {LinesOfTag(i) : i \in ValidTags}

\* the pairs of valid tags that share a line
SharingPairs ==
    {pr \in ValidTags \X ValidTags :
        pr[1] < pr[2] /\ LinesOfTag(pr[1]) \cap LinesOfTag(pr[2]) # {}}

\* C12: overlapping_ranges of a call that returns holds one entry per pair of
\* valid tags that share a line, and no entry with an invalid range.
C12_OverlapsAreValidPairsOnce ==
    (Covered /\ ~coverage.raised) =>
        /\ Len(Coverage.overlapping_ranges) = Cardinality(SharingPairs)
        /\ \A o \in Range(Coverage.overlapping_ranges) :
              /\ InBounds(CallPage, o.tag1.start, o.tag1.end)
              /\ InBounds(CallPage, o.tag2.start, o.tag2.end)
              /\ \E pr \in SharingPairs :
                    /\ o.tag1.start = CallTags[pr[1]].line_start
                    /\ o.tag1.end = CallTags[pr[1]].line_end
                    /\ o.tag2.start = CallTags[pr[2]].line_start
                    /\ o.tag2.end = CallTags[pr[2]].line_end

\* C13: the call raises for no tag list; every tag whose range is not valid
\* (null, not an integer, inverted, out of the page) is listed in
\* invalid_ranges under its index.
C13_NeverRaisesInvalidListed ==
    Covered =>
        /\ ~coverage.raised
        /\ Len(CallTags) > 0 =>
              /\ Len(Coverage.invalid_ranges)
                    = Len(CallTags) - Cardinality(ValidTags)
              /\ \A i \in 1..Len(CallTags) :
                    ~ValidTag(i) =>
                        \E r \in Range(Coverage.invalid_ranges) :
                            r.tag_index = i - 1

----------------------------------------------------------------------------
(* Properties of the grouped merge *)

\* main has run the grouped merge to its end
GroupedDone == pc = "main_done" /\ ~insertion_loaded

\* the tags of the run: page i of the list, tag k of the page
TagRefs ==
    UNION {{<<i, k>> : k \in 1..Len(LineTags(tagged_data[i]))} :
              i \in 1..Len(tagged_data)}
PageOf(x) == tagged_data[x[1]]
TagOf(x) == LineTags(PageOf(x))[x[2]]

HasYear(x) == IsInt(TagOf(x).year) /\ V(TagOf(x).year) # 0
NoYear(x) == TagOf(x).year = None

\* the tag is one the merge renders: a valid range with text in it
Renderable(x) ==
    /\ InBounds(PageOf(x), TagOf(x).line_start, TagOf(x).line_end)
    /\ \E n \in 1..Len(PageOf(x).lines) :
          /\ PageOf(x).lines[n].line_number
                \in V(TagOf(x).line_start)..V(TagOf(x).line_end)
          /\ ~Blank(PageOf(x).lines[n].text)

\* the header of the tag's segment, and where the text has it
SegmentHeader(x) ==
    IF HasYear(x) THEN TaggedHeader(Entry(PageOf(x), TagOf(x)))
    ELSE PlainHeader(Entry(PageOf(x), TagOf(x)))
Positions(x) ==
    {n \in 1..Len(merged.merged_text) :
        merged.merged_text[n] = SegmentHeader(x)}

Before(a, b) == \A m \in Positions(a), n \in Positions(b) : m < n

\* C14: in the text of the grouped merge a segment of an earlier year stands
\* before every segment of a later year, and every segment with a year
\* stands before every segment whose year is null; the segments with an
\* integer year or a null year are all in the text.
C14_YearsAscendingUnknownLast ==
    GroupedDone =>
        \A a, b \in TagRefs :
            /\ (Renderable(a) /\ (HasYear(a) \/ NoYear(a))) => Positions(a) # {}
            /\ (HasYear(a) /\ HasYear(b)
                    /\ V(TagOf(a).year) < V(TagOf(b).year)) => Before(a, b)
            /\ (HasYear(a) /\ NoYear(b)) => Before(a, b)

\* tags of 1905, 1904 and no year, in this order, rendered 1904, 1905, unknown
C14_Witness ==
    /\ GroupedDone
    /\ \E a, b, c \in TagRefs :
          /\ a[1] = 1 /\ a[2] = 1 /\ b[1] = 1 /\ b[2] = 2 /\ c[1] = 2
          /\ TagOf(a).year = I(1905) /\ TagOf(b).year = I(1904)
          /\ TagOf(c).year = None
          /\ \E l \in Positions(b), m \in Positions(a), n \in Positions(c) :
                l < m /\ m < n

\* the segment headers of the text of the grouped merge, in text order
GroupedHeaders == {SegmentHeader(x) : x \in TagRefs}
GroupedHeadersOfText ==
    SelectSeq(merged.merged_text, LAMBDA tok : tok \in GroupedHeaders)

\* record i of the manifest describes segment i of the grouped text
GroupedAligned ==
    /\ Len(GroupedHeadersOfText) = Len(merged.merged_structure)
    /\ \A i \in 1..Len(merged.merged_structure) :
          \E x \in TagRefs :
              /\ GroupedHeadersOfText[i] = SegmentHeader(x)
              /\ merged.merged_structure[i].book = PageOf(x).book_id
              /\ merged.merged_structure[i].page = PageOf(x).page_number
              /\ merged.merged_structure[i].line_start = TagOf(x).line_start
              /\ merged.merged_structure[i].line_end = TagOf(x).line_end

\* the segment headers of the text of the splice merge, in text order
PlacedHeaders ==
    {PlacedHeaderOf(ip, page) :
        ip \in Range(insertion_data),
        page \in {q \in Range(tagged_data) : q.book_id = Ruchama}}
SpliceHeadersOfText ==
    SelectSeq(merged.merged_text,
              LAMBDA tok : tok \in BaseHeaders \cup PlacedHeaders)

\* record i of the manifest describes segment i of the spliced text
SpliceAligned ==
    /\ Len(SpliceHeadersOfText) = Len(merged.merged_structure)
    /\ \A i \in 1..Len(merged.merged_structure) :
          LET r == merged.merged_structure[i] IN
          IF r.book = Yehuda
          THEN \E page \in Range(BasePages) :
                  /\ page.page_number = r.page
                  /\ SpliceHeadersOfText[i] = Header(YehudaSegment(page))
          ELSE \E ip \in Range(insertion_data) :
                  \E page \in SourcePagesOf(ip) :
                      /\ SpliceHeadersOfText[i] = PlacedHeaderOf(ip, page)
                      /\ r.page = page.page_number
                      /\ r.line_start = ip.source_line_start
                      /\ r.line_end = ip.source_line_end

\* C16: whichever merge main ran, the manifest holds one record per segment
\* of the text, in the order of the text, record i with the book, page and
\* line range of segment i.
C16_ManifestAlignedWithSegments ==
    pc = "main_done" =>
        IF insertion_loaded THEN SpliceAligned ELSE GroupedAligned

\* the lines of the base pages that hold more than whitespace
BaseLineTexts ==
    UNION {{page.lines[n].text : n \in {k \in 1..Len(page.lines) :
                                          ~Blank(page.lines[k].text)}} :
              page \in Range(BasePages)}

\* C19: whichever merge main ran to its end, every non-empty line of every
\* base page is in the merged text.
C19_NoBaseLineDropped ==
    pc = "main_done" =>
        \A text \in BaseLineTexts :
            \A tok \in Range(text) : tok \in Range(merged.merged_text)

\* the year group a tag belongs to: its integer year, or the unknown year
\* for a year that is null
YearBucket(x) == IF HasYear(x) THEN V(TagOf(x).year) ELSE UnknownYear
Rendered(x) == Renderable(x) /\ (HasYear(x) \/ NoYear(x))
NamedMonth(x) == TagOf(x).month # ""
NamedLocation(x) == TagOf(x).location # ""

\* the place of a month name in the table of month names, 0 when it is not
\* in the table
TableIndex(month) ==
    IF \E k \in 1..(Len(months_order) - 1) : months_order[k] = month
    THEN CHOOSE k \in 1..(Len(months_order) - 1) : months_order[k] = month
    ELSE 0

\* C23: in the text of the grouped merge, of two segments of one year group
\* (the unknown year included) the one whose month stands earlier in the
\* table of month names comes first, and a segment with a named month, in
\* the table or not, comes before every segment without a month.
C23_MonthsInTableOrderUnknownLast ==
    GroupedDone =>
        \A a, b \in TagRefs :
            (Rendered(a) /\ Rendered(b) /\ YearBucket(a) = YearBucket(b)) =>
                /\ (/\ TableIndex(TagOf(a).month) > 0
                    /\ TableIndex(TagOf(a).month) < TableIndex(TagOf(b).month))
                       => Before(a, b)
                /\ (NamedMonth(a) /\ ~NamedMonth(b)) => Before(a, b)

\* the names of the model that are locations, in lexicographic order
NamedLocationRank(l) ==
    CHOOSE k \in 1..Len(LocationNames) : LocationNames[k] = l

\* C24: in the text of the grouped merge, of two segments of one year and
\* month the one whose location name is lexicographically smaller comes
\* first, and a segment with a named location comes before every segment
\* without a location.
C24_LocationsLexicographicUnknownLast ==
    GroupedDone =>
        \A a, b \in TagRefs :
            (/\ Rendered(a) /\ Rendered(b) /\ YearBucket(a) = YearBucket(b)
             /\ TagOf(a).month = TagOf(b).month) =>
                /\ (/\ NamedLocation(a) /\ NamedLocation(b)
                    /\ NamedLocationRank(TagOf(a).location)
                          < NamedLocationRank(TagOf(b).location))
                       => Before(a, b)
                /\ (NamedLocation(a) /\ ~NamedLocation(b)) => Before(a, b)

\* the composite key of a rendered tag
CompositeKey(x) ==
    <<YearBucket(x), MonthRank(Entry(PageOf(x), TagOf(x)).month),
      Entry(PageOf(x), TagOf(x)).location, PageOf(x).page_number,
      TagOf(x).line_start>>

\* the source lines of a tag
SourceLines(x) ==
    <<PageOf(x).book_id, PageOf(x).page_number, TagOf(x).line_start,
      TagOf(x).line_end>>

\* the page list with the tag list of every page reversed
TagsReversed(pages) ==
    [i \in 1..Len(pages) |->
        WithTags(pages[i], Reverse(LineTags(pages[i])))]

\* the same pages and tags, listed in another order
Relistings ==
    LET orders == {ps \in Orderings(Range(tagged_data)) :
                      Len(ps) = Len(tagged_data)}
    IN  orders \cup {TagsReversed(ps) : ps \in orders}

\* C25: in a run of the grouped merge no two rendered tags of distinct source
\* lines have one composite key (year, month rank, location, page number,
\* start line), and the text is the text the merge gives for the same pages
\* and tags listed in any other order.
C25_OrderIndependentOfListing ==
    GroupedDone =>
        /\ \A a, b \in TagRefs :
              (/\ Rendered(a) /\ Rendered(b)
               /\ SourceLines(a) # SourceLines(b)) =>
                  CompositeKey(a) # CompositeKey(b)
        /\ \A pages \in Relistings :
              ~merge_by_ai_tags(pages).raised =>
                  merge_by_ai_tags(pages).merged_text = merged.merged_text

\* the banner lines of the text, and the banner before position n
BannerOf(x) ==
    IF HasYear(x) THEN "shana: " \o ToString(V(TagOf(x).year))
    ELSE "shana lo yedua"
Banners == {BannerOf(x) : x \in TagRefs}
BannerBefore(n) ==
    LET before == {m \in 1..(n - 1) : merged.merged_text[m] \in Banners}
    IN  IF before = {} THEN ""
        ELSE merged.merged_text[CHOOSE m \in before : \A k \in before : k <= m]

\* where the text has the segment of the tag: its header, and for a year
\* that is neither an integer nor null the header with or without the
\* tag's values
SegmentPositions(x) ==
    IF Rendered(x) THEN Positions(x)
    ELSE {n \in 1..Len(merged.merged_text) :
             \/ merged.merged_text[n] = TaggedHeader(Entry(PageOf(x), TagOf(x)))
             \/ merged.merged_text[n] = PlainHeader(Entry(PageOf(x), TagOf(x)))}

\* C26: in the text of the grouped merge every tag with a valid range and
\* text in it has its segment, once per listing of the tag, under the banner
\* of its year when the year is an integer and under the banner of the
\* unknown year when the year is null or not an integer.
C26_EveryValidTagRendered ==
    GroupedDone =>
        \A x \in TagRefs :
            Renderable(x) =>
                /\ SegmentPositions(x) # {}
                /\ \A n \in SegmentPositions(x) :
                      BannerBefore(n) = BannerOf(x)
                /\ Cardinality(SegmentPositions(x))
                      = Cardinality({y \in TagRefs :
                            /\ Renderable(y)
                            /\ SegmentHeader(y) = SegmentHeader(x)})

----------------------------------------------------------------------------
(* Properties of main's choice of the merge *)

Ran(engine) == \E r \in report : r.kind = engine

\* C27: a run of main announces and runs one merge, the splice merge exactly
\* when the insertion data holds at least one insertion point; with a file
\* of zero insertion points it runs the grouped merge.
C27_SpliceOnlyWithHints ==
    pc \in {"main_done", "main_raised"} =>
        /\ Ran(SpliceEngine) # Ran(FallbackEngine)
        /\ Ran(SpliceEngine) <=> Len(insertion_data) >= 1

----------------------------------------------------------------------------
(* Properties of extract_text_from_line_range *)

\* the number of newlines of a text
Newlines(text) == Cardinality({n \in 1..Len(text) : text[n] = NL})

\* C28: for a page whose lines are numbered 1..N and a range with
\* 1 <= start <= end <= N the call returns the texts of the lines
\* start..end, in this order, each as it is (an empty line as an empty
\* text), with one newline between two of them, end - start newlines in all;
\* and it leaves the page as it was.
C28_ExtractsExactlyTheRange ==
    pc = "extracted" =>
        /\ tagged_data = loaded.pages
        /\ (/\ DenseLines(CallPage)
            /\ InBounds(CallPage, ext.line_start, ext.line_end)) =>
               LET s == V(ext.line_start)
                   e == V(ext.line_end)
               IN  /\ ~ext.outcome.raised
                   /\ ext.outcome.value = LinesJoined(CallPage, s, e)
                   /\ Newlines(ext.outcome.value) = e - s
                   /\ \A n \in s..e :
                         \A tok \in Range(CallPage.lines[n].text) :
                             tok \in Range(ext.outcome.value)

\* lines 1..3 of the page whose second line is empty
C28_Witness ==
    /\ pc = "extracted"
    /\ CallPage = R1
    /\ ext.line_start = I(1) /\ ext.line_end = I(3)
    /\ ext.outcome = Returned(<<"r1a", NL, NL, "r1c">>)

----------------------------------------------------------------------------
(* Properties of determine_insertion_points_for_pages *)

\* the loop is between two pages, or past the last, with a page behind it
PageFinished == pc \in {"pages", "returned"} /\ ruchama_i >= 1

\* the insertion points the page in hand has contributed
PagePoints == SubSeq(oracle_points, page_base + 1, Len(oracle_points))

\* the attempt ended without the break of success
Failed(response) ==
    response.kind # "paragraphs" \/ ParagraphsRaise(response.paragraphs)

AllFailed == \A k \in 1..Len(log) : Failed(log[k])

\* at most MAX_RETRIES calls for a page
BoundedCalls == Len(log) <= MAX_RETRIES

\* the pages of the secondary source were taken one by one, in their order,
\* and all of them once the function has returned
EveryPageOnce ==
    /\ ruchama_i <= Len(ruchama_pages)
    /\ visited = [k \in 1..ruchama_i |-> ruchama_pages[k].page_number]
    /\ pc = "returned" => ruchama_i = Len(ruchama_pages)

\* a page whose attempts all failed has contributed nothing
FailedPageEmpty == PageFinished /\ AllFailed => PagePoints = << >>

\* the function returns
Terminates == <>(pc = "returned")

\* C29: for each page the oracle is called at most MAX_RETRIES = 3 times
\* whatever a call yields; the loop over the pages ends having visited every
\* page once; a page whose attempts all fail contributes no insertion point
\* and the later pages are still processed.
C29_BoundedRetriesPartialResults ==
    /\ [](BoundedCalls /\ EveryPageOnce /\ FailedPageEmpty)
    /\ Terminates

\* a response that parses and has a non-empty paragraphs list
Parsing(response) == response.kind = "paragraphs"

\* a paragraph with its three numbers
Recordable(para) == para.object /\ Complete(para)

\* the recordable paragraphs of a list as points of the page, in their order
Wanted(page, paragraphs) ==
    LET kept == SelectSeq(paragraphs, Recordable)
    IN  [k \in 1..Len(kept) |-> InsertionPoint(page, kept[k])]

\* C30: the insertion points of a page come from at most one attempt: no
\* call is made for the page after a response that parses and has a
\* non-empty paragraphs list, and the points of the page are the paragraphs
\* of that response whose source_line_start, source_line_end and
\* insert_after_page are all non-null, with the page's number, in the
\* oracle's order (none when no response of the page was such a one).
C30_PointsFromOneAttempt ==
    /\ pc = "attempt" =>
           /\ \A k \in 1..Len(log) : ~Parsing(log[k])
           /\ PagePoints = << >>
    /\ PageFinished =>
           /\ \A k \in 1..(Len(log) - 1) : ~Parsing(log[k])
           /\ PagePoints =
                  IF Len(log) > 0 /\ Parsing(log[Len(log)])
                  THEN Wanted(ruchama_pages[ruchama_i],
                              log[Len(log)].paragraphs)
                  ELSE << >>

====
